---- MODULE Spec2Model ----
(***************************************************************************)
(* Ingestion, identity and deduplication pipeline of the Twitch chat       *)
(* moderation tools: utils.py (message identity and enrichment),           *)
(* deduplication_manager.py, message_processor.py, vector_store_qdrant.py, *)
(* database_manager.py, chatterino_parser.py, moderador_semantico.py.      *)
(*                                                                         *)
(* Strings the code inspects character by character (usernames, texts)     *)
(* are sequences of one-character strings; Join makes the string.  A       *)
(* datetime is a number of clock ticks; its day, second and microsecond    *)
(* parts are recovered by division (see isoformat).  A field that the      *)
(* Python dict does not hold is the empty sequence / empty string, which   *)
(* the code treats like a missing key everywhere it tests the field.       *)
(***************************************************************************)
EXTENDS Integers, Sequences, FiniteSets, Bags, TLC

VARIABLES
    now,                  \* wall clock read by datetime.now(), in ticks
    \* --- enrichment of single messages (utils.py)
    message,              \* the message dict last passed to enrich_message
    previous,             \* the message dict enriched before it
    raw_username,         \* username of `message` before its first enrichment
    enrich_calls,         \* how many times enrich_message ran on `message`
    first_enriched,       \* `message` as the first enrich_message call left it
    \* --- the two stores (Qdrant server, PostgreSQL table moderation_logs)
    existing,             \* names of the collections that exist on the server
    points,               \* collection name -> bag of point payloads
    pg,                   \* bag of rows of moderation_logs
    \* --- QdrantVectorStore instance
    collection_name,      \* self.collection_name ("" is None)
    is_fresh_collection,  \* self.is_fresh_collection
    \* --- last call of DeduplicationManager.filter_new_messages
    batch_in,             \* the messages it was given
    new_messages,         \* the list it returned
    filter_log,           \* what the call saw and printed
    \* --- last call of MessageProcessor._save_with_verification
    last_save,            \* what the call was given, did and returned
    batch_written,        \* (message_id, collection) of every row it inserted
    \* --- a run of main.py --file: ModeradorSemantico(f).process_log_file(f)
    pc,                   \* "idle", "constructed" or "batch"
    filepath,             \* the log file of the run
    idx,                  \* position of the batch loop in new_messages
    runs,                 \* runs started so far
    run_clean,            \* every message of this run is in both stores so far
    clean_files,          \* files a finished run left completely stored
    rerun,                \* the last filter call re-read one of clean_files
    \* --- a call of MessageProcessor.process_messages_batch
    bp_pc,                \* "idle", "loop" (inside the call) or "returned"
    bp_messages,          \* the list the call was given
    bp_i,                 \* position of the loop in bp_messages
    batch_alerts,         \* the alerts of the chunk being processed
    alerts,               \* the alerts of the finished chunks (the list it returns)
    alert_ids,            \* message ids that produced an alert in this call
    bp_log,               \* per message: what the loop turn was given and did
    \* --- last calls of _calculate_severity and _calculate_priority
    scored,               \* the analysis they were given
    severity,             \* what _calculate_severity returned ("" before its call)
    priority,             \* what _calculate_priority returned ("" before its call)
    \* --- the real-time moderator (realtime_moderator.py) and the tailed file
    rt_pc,                \* "off", "on" (waiting for an event), "loop" (in the batch loop)
    disk,                 \* the lines of the tailed log file, in append order
    on_disk,              \* the tailed file exists
    file_positions,       \* self.file_positions: file -> byte offset
    processed_message_cache,  \* self.processed_message_cache
    message_hashes,       \* self.message_hashes
    rt_queue,             \* final_messages not yet handled by the loop
    rt_event,             \* what the last process_new_lines call saw and did
    rt_turn,              \* what the last turn of the loop of that call was given and did
    rt_done,              \* line numbers in the order this process classified them
    seen_lines,           \* lines of the file at the last read that succeeded
    partial,              \* the last line of the tailed file is not written to its end
    crlf,                 \* the tailed file ends its lines with "\r\n"
    \* --- SessionTracker of the ModeradorSemantico instance
    _session_stats,       \* self._session_stats
    \* --- last call of ChatterinoParser._parse_line
    parse_call,           \* the line, the debug flag, the clock and the result
    \* --- a run of main.py --batch over the log directory
    log_files,            \* the files the loop of main has not reached yet
    crashed               \* an exception left main: the process is gone

enrichVars == <<message, previous, raw_username, enrich_calls, first_enriched>>
storeVars  == <<existing, points, pg>>
qdrantVars == <<collection_name, is_fresh_collection>>
filterVars == <<batch_in, new_messages, filter_log>>
saveVars   == <<last_save, batch_written>>
runVars    == <<pc, filepath, idx, runs, run_clean, clean_files, rerun>>
batchVars  == <<bp_pc, bp_messages, bp_i, batch_alerts, alerts, alert_ids, bp_log>>
alertVars  == <<scored, severity, priority>>
tailVars   == <<rt_pc, disk, on_disk, file_positions, processed_message_cache,
                message_hashes, rt_queue, rt_event, rt_turn, rt_done, seen_lines,
                partial, crlf>>
sessionVars == <<_session_stats>>
parseVars  == <<parse_call>>
dirVars    == <<log_files, crashed>>

\* ------------------------------------------------------------------ bounds
MaxClock    == 4          \* last clock tick of the model
MaxBatch    == 2          \* longest batch handed to filter_new_messages
TicksPerSec == 2          \* microsecond values per second in the model
SecsPerDay  == 2          \* second values per day in the model
MaxRuns     == 2          \* runs of main.py --file in one behaviour
BATCH_SIZE  == 2          \* config.BATCH_SIZE: messages per chunk (50 by default)
MaxLines    == 3          \* most lines the tailed file gets
LineBytes   == 2          \* bytes of one line of the tailed file, newline included

TicksPerDay == TicksPerSec * SecsPerDay
Clock       == 0..MaxClock

\* ------------------------------------------------------- character strings
UpperChars == <<"U", "N", "K", "O", "W", "E", "L", "A">>
LowerChars == <<"u", "n", "k", "o", "w", "e", "l", "a">>

\* str.lower() on one character
LowerChar(c) ==
    IF \E i \in 1..Len(UpperChars) : UpperChars[i] = c
    THEN LowerChars[CHOOSE i \in 1..Len(UpperChars) : UpperChars[i] = c]
    ELSE c

\* str.lower()
Lower(s) == [i \in 1..Len(s) |-> LowerChar(s[i])]

RECURSIVE LStrip(_)
LStrip(s) == IF s # <<>> /\ Head(s) = " " THEN LStrip(Tail(s)) ELSE s

RECURSIVE RStrip(_)
RStrip(s) == IF s # <<>> /\ s[Len(s)] = " " THEN RStrip(SubSeq(s, 1, Len(s) - 1)) ELSE s

\* str.strip()
Strip(s) == RStrip(LStrip(s))

\* the str of a sequence of characters
RECURSIVE Join(_)
Join(s) == IF s = <<>> THEN "" ELSE Head(s) \o Join(Tail(s))

DigitChars == <<"0", "1", "2", "3", "4", "5", "6", "7", "8", "9">>
Digit(n)   == DigitChars[n + 1]

HexChars == <<"0", "1", "2", "3", "4", "5", "6", "7",
              "8", "9", "a", "b", "c", "d", "e", "f">>

\* code point of a character of a message text (the texts of the model use
\* these characters only)
TextChars == <<"h", "i", "y", "o", " ", "x">>
CharCode(c) == CHOOSE i \in 1..Len(TextChars) : TextChars[i] = c

RECURSIVE SumCodes(_)
SumCodes(s) == IF s = <<>> THEN 0 ELSE CharCode(Head(s)) + SumCodes(Tail(s))

\* The texts and usernames of the model (messages and log lines).
Texts == { <<"h", "i">>, <<"y", "o">> }

Usernames ==
    { <<>>, <<" ">>, <<"N", "o", "n", "e">>, <<" ", "N", "U", "L", "L", " ">>,
      <<"a">>, <<"A">>, <<"a", "_", "0", "T", "0">> }

\* A digest of fixed width that depends on the text only and is not
\* injective.
HashLen == 8
Digest(text) ==
    LET sum == SumCodes(text)
    IN  Join([i \in 1..HashLen |-> HexChars[((sum * i + Len(text)) % 16) + 1]])

\* What a text cut after its first character leaves on each side.
TextParts == UNION { { <<Head(tx)>>, Tail(tx) } : tx \in Texts }

DigestOf == [tx \in Texts \cup TextParts \cup {<<>>} |-> Digest(tx)]

\* hashlib.md5(text.encode('utf-8')).hexdigest()[:8]
text_hash(text) == DigestOf[text]

\* datetime.isoformat(): date "T" time, and the fraction only when the
\* microsecond part is not zero.
isoformat(t) ==
    LET d == t \div TicksPerDay
        s == (t % TicksPerDay) \div TicksPerSec
        u == t % TicksPerSec
    IN  Digit(d) \o "T" \o Digit(s) \o (IF u = 0 THEN "" ELSE "." \o Digit(u))

\* The text of a timestamp as a log line or a caller writes it
\* ("2025-05-30 19:31:23"), and of a string no date parser accepts.
DateString(t) ==
    Digit(t \div TicksPerDay) \o " " \o Digit((t % TicksPerDay) \div TicksPerSec)
BadDateString == "?"

\* ---------------------------------------------------------------- messages
\* message['timestamp'] is a datetime, a date string, a string that does not
\* parse, or missing.
Datetime(t)  == [kind |-> "datetime", v |-> t]
DateStr(t)   == [kind |-> "str", v |-> t]
BadStr       == [kind |-> "badstr", v |-> 0]
NoTimestamp  == [kind |-> "missing", v |-> 0]

UNKNOWN        == <<"u", "n", "k", "n", "o", "w", "n">>
NONE           == <<"n", "o", "n", "e">>
NULL           == <<"n", "u", "l", "l">>
BOT_OR_UNKNOWN == <<"b", "o", "t", "_", "o", "r", "_", "u", "n", "k", "n", "o", "w", "n">>

\* str(username).strip().lower(), and the sentinel for an empty or reserved
\* name: the username part of the id.
NormalizedUsername(u) ==
    LET raw_username_ == Lower(Strip(u))
    IN  IF raw_username_ = <<>> \/ raw_username_ \in {UNKNOWN, NONE, NULL}
        THEN BOT_OR_UNKNOWN ELSE raw_username_

\* MessageProcessor.streamer_username, and the name as the chat log shows it.
streamer_username == <<"n", "i", "a", "g", "h", "t", "m", "a", "r", "e", "s">>
StreamerName      == <<"N", "i", "a", "g", "h", "t", "m", "a", "r", "e", "s">>

AllUsernames ==
    Usernames \cup {Strip(u) : u \in Usernames} \cup {UNKNOWN, BOT_OR_UNKNOWN}
        \cup {streamer_username, StreamerName}

IdUsernameOf == [u \in AllUsernames |-> Join(NormalizedUsername(u))]

\* The string generate_message_id uses when message['timestamp'] is a str.
TimestampText(ts) == IF ts.kind = "str" THEN DateString(ts.v) ELSE BadDateString

\* generate_message_id without the timestamp part (a plausible slip: the id
\* built from username and text hash only).
generate_message_id_no_ts(msg, clock) ==
    LET username == IdUsernameOf[msg.username]
    IN  username \o "_" \o text_hash(msg.text)

\* generate_message_id without the username normalisation.
generate_message_id_raw_user(msg, clock) ==
    LET timestamp_str ==
            IF msg.timestamp.kind = "datetime" THEN isoformat(msg.timestamp.v)
            ELSE IF msg.timestamp_str # "" THEN msg.timestamp_str
            ELSE IF msg.timestamp.kind \in {"str", "badstr"} THEN TimestampText(msg.timestamp)
            ELSE isoformat(clock)
    IN  Join(msg.username) \o "_" \o timestamp_str \o "_" \o text_hash(msg.text)

generate_message_id(msg, clock) ==
    LET timestamp_str ==
            IF msg.timestamp.kind = "datetime" THEN isoformat(msg.timestamp.v)
            ELSE IF msg.timestamp_str # "" THEN msg.timestamp_str
            ELSE IF msg.timestamp.kind \in {"str", "badstr"} THEN TimestampText(msg.timestamp)
            ELSE isoformat(clock)
        username == IdUsernameOf[msg.username]
    IN  username \o "_" \o timestamp_str \o "_" \o text_hash(msg.text)

\* enrich_message that stamps the current time whenever the message carries
\* no parseable date string (a plausible slip: the datetime case forgotten).
enrich_message_restamp(msg, file_source, clock) ==
    LET ts == IF msg.timestamp.kind = "str" THEN Datetime(msg.timestamp.v)
              ELSE Datetime(clock)
        m1 == [msg EXCEPT !.timestamp = ts,
                          !.timestamp_str = isoformat(ts.v),
                          !.username = IF @ = <<>> THEN UNKNOWN ELSE @,
                          !.file_source = IF file_source = "" THEN "unknown" ELSE file_source]
    IN  [m1 EXCEPT !.message_id = generate_message_id(m1, clock)]

enrich_message(msg, file_source, clock) ==
    LET ts == IF msg.timestamp.kind = "missing" THEN Datetime(clock)
              ELSE IF msg.timestamp.kind = "str" THEN Datetime(msg.timestamp.v)
              ELSE IF msg.timestamp.kind = "badstr" THEN Datetime(clock)
              ELSE msg.timestamp
        m1 == [msg EXCEPT !.timestamp = ts,
                          !.timestamp_str = isoformat(ts.v),
                          !.username = IF @ = <<>> THEN UNKNOWN ELSE @,
                          !.file_source = IF file_source = "" THEN "unknown" ELSE file_source]
    IN  [m1 EXCEPT !.message_id = generate_message_id(m1, clock)]

\* Timestamps a caller may hand to enrich_message.
RawTimestamps ==
    {NoTimestamp, BadStr, DateStr(0), Datetime(0), Datetime(1)}

\* A message as a caller may hand it to enrich_message; one that carries a
\* datetime also carries the text it was parsed from (as the parser's do).
RawMessages ==
    { [ username      |-> u,
        timestamp     |-> ts,
        timestamp_str |-> IF ts.kind = "datetime" THEN DateString(ts.v) ELSE "",
        text          |-> tx,
        file_source   |-> "chat.log",
        message_id    |-> "" ] : u \in Usernames, ts \in RawTimestamps, tx \in Texts }

NoMessage ==
    [ username |-> <<>>, timestamp |-> NoTimestamp, timestamp_str |-> "",
      text |-> <<>>, file_source |-> "", message_id |-> "" ]

\* ------------------------------------------------------------ log lines
\* A log line by the way ChatterinoParser.patterns take it: "full" is a line
\* one of the dated patterns matches (t is its timestamp), "hour" a line of
\* the hour-only pattern [HH:MM:SS] (t is its second of the day), "none" a
\* line no pattern matches (colon: it holds a ':', text is what follows it).
FullLine(t, u, tx) == [fmt |-> "full", t |-> t, username |-> u, text |-> tx, colon |-> TRUE]
HourLine(s, u, tx) == [fmt |-> "hour", t |-> s, username |-> u, text |-> tx, colon |-> TRUE]
OtherLine(c, tx)   == [fmt |-> "none", t |-> 0, username |-> <<>>, text |-> tx, colon |-> c]
\* A line one of the patterns matches but whose timestamp no format parses
\* ("[2025-13-45 10:00:00] a: hi"); tx is what follows its first ':'.
BadDateLine(tx)    == [fmt |-> "baddate", t |-> 0, username |-> <<>>, text |-> tx, colon |-> TRUE]

\* ChatterinoParser._parse_timestamp: strptime with the listed formats; the
\* hour-only format takes the date of the current day.
_parse_timestamp(line, clock) ==
    IF line.fmt = "hour"
    THEN Datetime((clock \div TicksPerDay) * TicksPerDay + line.t * TicksPerSec)
    ELSE Datetime(line.t)

\* _parse_line that falls back to the low-confidence message whatever the
\* debug flag is.
_parse_line_lenient(line, debug_mode, clock) ==
    IF line.fmt \in {"full", "hour"}
    THEN << [ username      |-> Strip(line.username),
              timestamp     |-> _parse_timestamp(line, clock),
              timestamp_str |-> IF line.fmt = "hour" THEN Digit(line.t)
                                ELSE DateString(line.t),
              text          |-> Strip(line.text),
              file_source   |-> "",
              message_id    |-> "" ] >>
    ELSE IF line.colon
    THEN << [ username      |-> BOT_OR_UNKNOWN,
              timestamp     |-> Datetime(clock),
              timestamp_str |-> "unknown",
              text          |-> Strip(line.text),
              file_source   |-> "",
              message_id    |-> "" ] >>
    ELSE <<>>

\* ChatterinoParser._parse_line; the result is <<message>> or <<>> (None).
\* A line whose timestamp does not parse leaves the pattern loop like a line
\* no pattern matches.
_parse_line(line, debug_mode, clock) ==
    IF line.fmt \in {"full", "hour"}
    THEN << [ username      |-> Strip(line.username),
              timestamp     |-> _parse_timestamp(line, clock),
              timestamp_str |-> IF line.fmt = "hour" THEN Digit(line.t)
                                ELSE DateString(line.t),
              text          |-> Strip(line.text),
              file_source   |-> "",
              message_id    |-> "" ] >>
    ELSE IF debug_mode THEN <<>>
    ELSE IF line.colon
    THEN << [ username      |-> BOT_OR_UNKNOWN,
              timestamp     |-> Datetime(clock),
              timestamp_str |-> "unknown",
              text          |-> Strip(line.text),
              file_source   |-> "",
              message_id    |-> "" ] >>
    ELSE <<>>

\* ------------------------------------------------------------------ stores
FileNames == {"a.log", "b.log"}

\* The log files on disk; they do not change.  a.log: a dated line, the same
\* line again, a line no pattern matches.  b.log: an hour-only line with a
\* blank username and a line without any colon.
LogFile(f) ==
    IF f = "a.log"
    THEN << FullLine(0, <<"a">>, <<"h", "i">>),
            FullLine(0, <<"a">>, <<"h", "i">>),
            OtherLine(TRUE, <<" ", "y", "o">>) >>
    ELSE << HourLine(1, <<" ">>, <<"y", "o">>),
            OtherLine(FALSE, <<"h", "i">>) >>

\* ChatterinoParser.parse_file: the parsed lines in file order, each with the
\* file name as file_source.
RECURSIVE ParseLines(_, _, _, _)
ParseLines(lines, f, debug_mode, clock) ==
    IF lines = <<>> THEN <<>>
    ELSE LET parsed == _parse_line(Head(lines), debug_mode, clock)
         IN  (IF parsed = <<>> THEN <<>>
              ELSE << [parsed[1] EXCEPT !.file_source = f] >>)
                 \o ParseLines(Tail(lines), f, debug_mode, clock)

parse_file(f, debug_mode, clock) == ParseLines(LogFile(f), f, debug_mode, clock)

\* The number of lines of the longest log file.
MaxFileLines == Len(LogFile("a.log"))

\* QdrantVectorStore._generate_collection_name: cleaned file stem, "_", and
\* the first 8 hex digits of the md5 of the path.
_generate_collection_name(file_path) ==
    IF file_path = "a.log" THEN "a_c9389dbd" ELSE "b_e46ea480"

CollectionNames == {_generate_collection_name(f) : f \in FileNames}

\* message ids held by the current collection; the request raises when the
\* server is down or the collection does not exist.
CollectionIds(cname) == {p.message_id : p \in BagToSet(points[cname])}

Ids(messages) == {generate_message_id(messages[i], now) : i \in 1..Len(messages)}

\* QdrantVectorStore.get_existing_message_ids: a failing scroll is caught and
\* contributes no id.
qdrant_get_existing_message_ids(messages, qdrant_up) ==
    IF messages = <<>> THEN {}
    ELSE IF ~qdrant_up \/ collection_name \notin existing THEN {}
    ELSE CollectionIds(collection_name) \cap Ids(messages)

\* get_existing_message_ids that answers a failing query with every id asked
\* for (a plausible slip: failure taken as "already stored").
db_get_existing_message_ids_all(messages, pg_up) ==
    IF messages = <<>> THEN {}
    ELSE IF ~pg_up THEN Ids(messages)
    ELSE {r.message_id : r \in BagToSet(pg)} \cap Ids(messages)

\* DatabaseManager.get_existing_message_ids: a failing query is caught and
\* yields the empty set.
db_get_existing_message_ids(messages, pg_up) ==
    IF messages = <<>> THEN {}
    ELSE IF ~pg_up THEN {}
    ELSE {r.message_id : r \in BagToSet(pg)} \cap Ids(messages)

Payload(msg, message_id) ==
    [message_id |-> message_id, username |-> msg.username, file_source |-> msg.file_source]

\* add_message without the look-up of the message_id before the upsert.
add_message_unchecked(msg, analysis, qdrant_up) ==
    IF analysis.message_id = "" \/ ~qdrant_up \/ collection_name \notin existing
    THEN [point_id |-> "", points |-> points]
    ELSE [point_id |-> "uuid",
          points   |-> [points EXCEPT ![collection_name] =
                            @ (+) SetToBag({Payload(msg, analysis.message_id)})]]

\* QdrantVectorStore.add_message: the point id it returns ("" when nothing
\* was inserted) and the collections afterwards.
add_message(msg, analysis, qdrant_up) ==
    IF analysis.message_id = "" THEN [point_id |-> "", points |-> points]
    ELSE IF ~qdrant_up \/ collection_name \notin existing
    THEN [point_id |-> "", points |-> points]
    ELSE IF analysis.message_id \in CollectionIds(collection_name)
    THEN [point_id |-> "", points |-> points]
    ELSE [point_id |-> "uuid",
          points   |-> [points EXCEPT ![collection_name] =
                            @ (+) SetToBag({Payload(msg, analysis.message_id)})]]

Row(msg, message_id, point_id) ==
    [message_id |-> message_id, username |-> msg.username,
     file_source |-> msg.file_source, qdrant_point_id |-> point_id]

\* DatabaseManager.save_analysis: whether it inserted, and the table afterwards.
save_analysis(msg, analysis, point_id, pg_up) ==
    IF analysis.message_id = "" \/ ~pg_up THEN [ok |-> FALSE, pg |-> pg]
    ELSE IF \E r \in BagToSet(pg) : r.message_id = analysis.message_id
    THEN [ok |-> FALSE, pg |-> pg]
    ELSE [ok |-> TRUE,
          pg |-> pg (+) SetToBag({Row(msg, analysis.message_id, point_id)})]

\* _save_with_verification that writes the row whatever add_message returned.
_save_with_verification_always(msg, analysis, qdrant_up, pg_up) ==
    LET added == add_message(msg, analysis, qdrant_up)
        saved == save_analysis(msg, analysis, added.point_id, pg_up)
    IN  [ point_id |-> added.point_id, points |-> added.points, pg |-> saved.pg,
          postgres_attempted |-> TRUE,
          inconsistency |-> added.point_id # "" /\ ~saved.ok ]

\* _save_with_verification that asks the table a second time after a failed
\* insert (a synchronous retry, which finds the table answering).
_save_with_verification_retry(msg, analysis, qdrant_up, pg_up) ==
    LET added == add_message(msg, analysis, qdrant_up)
        saved == save_analysis(msg, analysis, added.point_id, pg_up)
        again == save_analysis(msg, analysis, added.point_id, TRUE)
    IN  IF added.point_id # ""
        THEN [ point_id |-> added.point_id, points |-> added.points,
               pg |-> IF saved.ok THEN saved.pg ELSE again.pg,
               postgres_attempted |-> TRUE, inconsistency |-> ~saved.ok ]
        ELSE [ point_id |-> "", points |-> added.points, pg |-> pg,
               postgres_attempted |-> FALSE, inconsistency |-> FALSE ]

\* MessageProcessor._save_with_verification: the vector store first, the
\* relational store only when add_message returned a point id.
\* inconsistency: the "Guardado en Qdrant pero fallo PostgreSQL" line is printed.
_save_with_verification(msg, analysis, qdrant_up, pg_up) ==
    LET added == add_message(msg, analysis, qdrant_up)
        saved == save_analysis(msg, analysis, added.point_id, pg_up)
    IN  IF added.point_id # ""
        THEN [ point_id |-> added.point_id, points |-> added.points, pg |-> saved.pg,
               postgres_attempted |-> TRUE, inconsistency |-> ~saved.ok ]
        ELSE [ point_id |-> "", points |-> added.points, pg |-> pg,
               postgres_attempted |-> FALSE, inconsistency |-> FALSE ]

\* ------------------------------------------------- classification, alerts
\* Scores are hundredths: 80 is the float 0.8.
\* What the classification service answers to one request: nothing (the
\* request failed three times, or the answer is no JSON), or a verdict.
NoResponse == [ok |-> FALSE, requires_action |-> FALSE,
               toxicity_score |-> 0, spam_probability |-> 0]
Verdict(requires_action, toxicity, spam) ==
    [ok |-> TRUE, requires_action |-> requires_action,
     toxicity_score |-> toxicity, spam_probability |-> spam]

\* OllamaAnalyzer._default_analysis
_default_analysis(message_, clock) ==
    [ toxicity_score |-> 0, spam_probability |-> 0, requires_action |-> FALSE,
      action_type |-> "ignore", message_id |-> generate_message_id(message_, clock),
      model_used |-> "fallback" ]

\* OllamaAnalyzer._finalize_analysis: the scores are clamped to [0, 1].
_finalize_analysis(response, message_, clock) ==
    LET clamp(x) == IF x > 100 THEN 100 ELSE x
    IN  [ toxicity_score |-> clamp(response.toxicity_score),
          spam_probability |-> clamp(response.spam_probability),
          requires_action |-> response.requires_action,
          action_type |-> IF response.requires_action THEN "warn" ELSE "ignore",
          message_id |-> generate_message_id(message_, clock),
          model_used |-> "model" ]

\* OllamaAnalyzer._enhance_streamer_analysis
_enhance_streamer_analysis(analysis) ==
    [analysis EXCEPT !.requires_action = TRUE, !.action_type = "protect"]

\* analyze_message whose default analysis asks for moderation (a failure
\* taken as a reason to act).
analyze_message_failure_acts(message_, response, clock) ==
    IF Strip(message_.text) = <<>> \/ ~response.ok
    THEN [_default_analysis(message_, clock) EXCEPT !.requires_action = TRUE]
    ELSE IF Lower(message_.username) = streamer_username
    THEN _enhance_streamer_analysis(_finalize_analysis(response, message_, clock))
    ELSE _finalize_analysis(response, message_, clock)

\* OllamaAnalyzer.analyze_message: every failure (no response, no JSON, an
\* exception) ends in _default_analysis.
analyze_message(message_, response, clock) ==
    IF Strip(message_.text) = <<>> THEN _default_analysis(message_, clock)
    ELSE IF response.ok
    THEN IF Lower(message_.username) = streamer_username
         THEN _enhance_streamer_analysis(_finalize_analysis(response, message_, clock))
         ELSE _finalize_analysis(response, message_, clock)
    ELSE _default_analysis(message_, clock)

\* The thresholds of MessageProcessor._calculate_severity, in hundredths.
CriticalToxicity == 80
CriticalSpam     == 90
HighToxicity     == 60
HighSpam         == 70
MediumToxicity   == 40
MediumSpam       == 50

\* _calculate_severity with strict comparisons (as _calculate_priority of the
\* real-time moderator has them).
_calculate_severity_strict(analysis) ==
    LET toxicity == analysis.toxicity_score
        spam == analysis.spam_probability
    IN  IF toxicity > CriticalToxicity \/ spam > CriticalSpam THEN "CRITICAL"
        ELSE IF toxicity > HighToxicity \/ spam > HighSpam THEN "HIGH"
        ELSE IF toxicity > MediumToxicity \/ spam > MediumSpam THEN "MEDIUM"
        ELSE "LOW"

\* MessageProcessor._calculate_severity
_calculate_severity(analysis) ==
    LET toxicity == analysis.toxicity_score
        spam == analysis.spam_probability
    IN  IF toxicity >= CriticalToxicity \/ spam >= CriticalSpam THEN "CRITICAL"
        ELSE IF toxicity >= HighToxicity \/ spam >= HighSpam THEN "HIGH"
        ELSE IF toxicity >= MediumToxicity \/ spam >= MediumSpam THEN "MEDIUM"
        ELSE "LOW"

\* OptimizedModeradorSemantico._calculate_priority (real-time moderator):
\* the same six numbers, compared with >.
_calculate_priority(analysis) ==
    LET toxicity == analysis.toxicity_score
        spam == analysis.spam_probability
    IN  IF toxicity > CriticalToxicity \/ spam > CriticalSpam THEN "CRITICAL"
        ELSE IF toxicity > HighToxicity \/ spam > HighSpam THEN "HIGH"
        ELSE IF toxicity > MediumToxicity \/ spam > MediumSpam THEN "MEDIUM"
        ELSE "LOW"

\* MessageProcessor._create_alert
_create_alert(message_, analysis) ==
    [ message_id |-> analysis.message_id, username |-> message_.username,
      toxicity |-> analysis.toxicity_score,
      spam_probability |-> analysis.spam_probability,
      action |-> analysis.action_type,
      severity |-> _calculate_severity(analysis) ]

\* What a loop turn does when it does not reach _save_with_verification.
NotSaved ==
    [ point_id |-> "", points |-> points, pg |-> pg,
      postgres_attempted |-> FALSE, inconsistency |-> FALSE ]

\* The loop turn that writes to the stores without an embedding.
_process_single_batch_unembedded(msg, ids, response, embedding_ok, qdrant_up, pg_up) ==
    LET message_ == enrich_message(msg, "unknown", now)
        analysis == [analyze_message(message_, response, now)
                        EXCEPT !.message_id = message_.message_id]
        saved == _save_with_verification(message_, analysis, qdrant_up, pg_up)
        alert == /\ analysis.requires_action
                 /\ analysis.message_id \notin ids
                 /\ Lower(message_.username) # streamer_username
    IN  [ message |-> message_, analysis |-> analysis, embedded |-> embedding_ok,
          saved |-> saved,
          alert |-> IF embedding_ok /\ alert
                    THEN <<_create_alert(message_, analysis)>> ELSE <<>> ]

\* One turn of the loop of MessageProcessor._process_single_batch on msg,
\* with the alert_ids of the call so far: enrich, classify, embed, and with an
\* embedding _save_with_verification and the alert check.  alert is the
\* alert appended to batch_alerts, if any.
_process_single_batch(msg, ids, response, embedding_ok, qdrant_up, pg_up) ==
    LET message_ == enrich_message(msg, "unknown", now)
        analysis == [analyze_message(message_, response, now)
                        EXCEPT !.message_id = message_.message_id]
        saved == _save_with_verification(message_, analysis, qdrant_up, pg_up)
        alert == /\ analysis.requires_action
                 /\ analysis.message_id \notin ids
                 /\ Lower(message_.username) # streamer_username
    IN  IF embedding_ok
        THEN [ message |-> message_, analysis |-> analysis, embedded |-> TRUE,
               saved |-> saved,
               alert |-> IF alert THEN <<_create_alert(message_, analysis)>>
                         ELSE <<>> ]
        ELSE [ message |-> message_, analysis |-> analysis, embedded |-> FALSE,
               saved |-> NotSaved, alert |-> <<>> ]

\* ----------------------------------------------------- deduplication engine
RECURSIVE UniqueById(_, _)
UniqueById(messages, seen_ids) ==
    IF messages = <<>> THEN <<>>
    ELSE IF Head(messages).message_id \in seen_ids
    THEN UniqueById(Tail(messages), seen_ids)
    ELSE <<Head(messages)>>
            \o UniqueById(Tail(messages), seen_ids \cup {Head(messages).message_id})

\* DeduplicationManager._remove_internal_duplicates
_remove_internal_duplicates(messages) == UniqueById(messages, {})

\* DeduplicationManager._debug_inconsistencies: TRUE when it prints the
\* "Inconsistencias detectadas entre backends" lines.
_debug_inconsistencies(postgres_ids, qdrant_ids) ==
    (postgres_ids \ qdrant_ids) # {} \/ (qdrant_ids \ postgres_ids) # {}

\* _remove_external_duplicates that keeps a message unless both stores
\* report it.
_remove_external_duplicates_both(messages, pg_up, qdrant_up) ==
    LET existing_ids_postgres == db_get_existing_message_ids(messages, pg_up)
        existing_ids_qdrant   == qdrant_get_existing_message_ids(messages, qdrant_up)
        all_existing_ids      == existing_ids_postgres \cap existing_ids_qdrant
        keep(m)               == m.message_id \notin all_existing_ids
    IN  [ new_messages          |-> SelectSeq(messages, keep),
          existing_ids_postgres |-> existing_ids_postgres,
          existing_ids_qdrant   |-> existing_ids_qdrant,
          inconsistencies       |-> _debug_inconsistencies(existing_ids_postgres,
                                                           existing_ids_qdrant) ]

\* DeduplicationManager._remove_external_duplicates
_remove_external_duplicates(messages, pg_up, qdrant_up) ==
    LET existing_ids_postgres == db_get_existing_message_ids(messages, pg_up)
        existing_ids_qdrant   == qdrant_get_existing_message_ids(messages, qdrant_up)
        all_existing_ids      == existing_ids_postgres \cup existing_ids_qdrant
        keep(m)               == m.message_id \notin all_existing_ids
    IN  [ new_messages          |-> SelectSeq(messages, keep),
          existing_ids_postgres |-> existing_ids_postgres,
          existing_ids_qdrant   |-> existing_ids_qdrant,
          inconsistencies       |-> _debug_inconsistencies(existing_ids_postgres,
                                                           existing_ids_qdrant) ]

\* DeduplicationManager._simple_duplicate_filter
_simple_duplicate_filter(messages) ==
    UniqueById([i \in 1..Len(messages) |-> enrich_message(messages[i], "unknown", now)], {})

NoCall ==
    [ path |-> "none", pg_up |-> TRUE, qdrant_up |-> TRUE,
      existing_ids_postgres |-> {}, existing_ids_qdrant |-> {},
      inconsistencies |-> FALSE, points_in_collection |-> 0 ]

PointsInCollection ==
    IF collection_name \in existing THEN BagCardinality(points[collection_name]) ELSE 0

\* DeduplicationManager.filter_new_messages.  tier_raises: an exception leaves
\* the external tier (the thread pool cannot start its workers); path is the
\* branch taken: "bypass" (fresh collection), "tiers", or "fallback".
filter_new_messages(messages, pg_up, qdrant_up, tier_raises) ==
    LET enriched_messages ==
            [i \in 1..Len(messages) |-> enrich_message(messages[i], "unknown", now)]
        base == [NoCall EXCEPT !.points_in_collection = PointsInCollection]
    IN  IF is_fresh_collection
        THEN [result |-> enriched_messages, log |-> [base EXCEPT !.path = "bypass"]]
        ELSE IF tier_raises
        THEN [result |-> _simple_duplicate_filter(enriched_messages),
              log    |-> [base EXCEPT !.path = "fallback"]]
        ELSE LET unique_messages == _remove_internal_duplicates(enriched_messages)
                 ext == _remove_external_duplicates(unique_messages, pg_up, qdrant_up)
             IN  [result |-> ext.new_messages,
                  log    |-> [base EXCEPT
                                !.path = "tiers",
                                !.pg_up = pg_up, !.qdrant_up = qdrant_up,
                                !.existing_ids_postgres = ext.existing_ids_postgres,
                                !.existing_ids_qdrant = ext.existing_ids_qdrant,
                                !.inconsistencies = ext.inconsistencies]]

\* Parsed messages the callers of the dedup engine hand to it.
ParsedPool ==
    { _parse_line(FullLine(0, <<"a">>, <<"h", "i">>), FALSE, 0)[1],
      _parse_line(FullLine(TicksPerSec, <<" ">>, <<"y", "o">>), FALSE, 0)[1] }

RECURSIVE SeqsUpTo(_, _)
SeqsUpTo(S, n) ==
    IF n = 0 THEN {<<>>}
    ELSE LET shorter == SeqsUpTo(S, n - 1)
         IN  shorter \cup {Append(q, x) : q \in shorter, x \in S}

Batches == SeqsUpTo(ParsedPool, MaxBatch)

\* QdrantVectorStore._ensure_collection on the collections ex: it creates
\* the collection when the server does not list it.  When the request fails
\* the attribute is_fresh_collection keeps the value it had.
_ensure_collection(cname, ex, fresh, qdrant_up) ==
    IF ~qdrant_up THEN [existing |-> ex, is_fresh_collection |-> fresh]
    ELSE IF cname \notin ex
    THEN [existing |-> ex \cup {cname}, is_fresh_collection |-> TRUE]
    ELSE [existing |-> ex, is_fresh_collection |-> FALSE]

\* QdrantVectorStore.set_collection_for_file.  collections[0] raises on a
\* server without any collection; every exception leaves the flag False.
set_collection_for_file(file_path, ex, qdrant_up) ==
    LET cname == _generate_collection_name(file_path)
    IN  IF qdrant_up /\ ex # {} /\ cname \notin ex
        THEN [collection_name |-> cname, existing |-> ex \cup {cname},
              is_fresh_collection |-> TRUE]
        ELSE [collection_name |-> cname, existing |-> ex,
              is_fresh_collection |-> FALSE]

\* QdrantVectorStore(config, file_path): a new instance.  With a file path
\* the attribute is_fresh_collection does not exist before
\* _ensure_collection, which readers (getattr with default) take as False.
Construct(file_path, qdrant_up) ==
    \E r \in {_ensure_collection(_generate_collection_name(file_path), existing,
                                  FALSE, qdrant_up)} :
        /\ collection_name' = _generate_collection_name(file_path)
        /\ existing' = r.existing
        /\ is_fresh_collection' = r.is_fresh_collection
        /\ UNCHANGED <<now, enrichVars, points, pg, filterVars, saveVars, runVars>>
        /\ UNCHANGED <<batchVars, alertVars, tailVars>>
        /\ UNCHANGED <<sessionVars, parseVars, dirVars>>

\* vector_store.set_collection_for_file(file_path)
SetCollectionForFile(file_path, qdrant_up) ==
    \E r \in {set_collection_for_file(file_path, existing, qdrant_up)} :
        /\ collection_name' = r.collection_name
        /\ existing' = r.existing
        /\ is_fresh_collection' = r.is_fresh_collection
        /\ UNCHANGED <<now, enrichVars, points, pg, filterVars, saveVars, runVars>>
        /\ UNCHANGED <<batchVars, alertVars, tailVars>>
        /\ UNCHANGED <<sessionVars, parseVars, dirVars>>

\* What one _save_with_verification call leaves in last_save.
NoSave ==
    [ message_id |-> "", collection |-> "", existed |-> FALSE, point_id |-> "",
      postgres_attempted |-> FALSE, inconsistency |-> FALSE ]

SaveRecord(m, r) ==
    [ message_id |-> m.message_id, collection |-> collection_name,
      existed |-> collection_name \in existing
                      /\ m.message_id \in CollectionIds(collection_name),
      point_id |-> r.point_id, postgres_attempted |-> r.postgres_attempted,
      inconsistency |-> r.inconsistency ]

RowIds(table) == {r.message_id : r \in BagToSet(table)}

\* vector_store.add_message(message, analysis, embedding) for one enriched
\* message.
AddMessage(msg, qdrant_up) ==
    \E m \in {enrich_message(msg, "unknown", now)} :
    \E r \in {add_message(m, [message_id |-> m.message_id], qdrant_up)} :
        /\ points' = r.points
        /\ UNCHANGED <<now, enrichVars, existing, pg, qdrantVars, filterVars>>
        /\ UNCHANGED <<saveVars, runVars>>
        /\ UNCHANGED <<batchVars, alertVars, tailVars>>
        /\ UNCHANGED <<sessionVars, parseVars, dirVars>>

\* db.save_analysis(message, analysis, point_id) for one enriched message.
SaveAnalysis(msg, point_id, pg_up) ==
    \E m \in {enrich_message(msg, "unknown", now)} :
    \E r \in {save_analysis(m, [message_id |-> m.message_id], point_id, pg_up)} :
        /\ pg' = r.pg
        /\ UNCHANGED <<now, enrichVars, existing, points, qdrantVars, filterVars>>
        /\ UNCHANGED <<saveVars, runVars>>
        /\ UNCHANGED <<batchVars, alertVars, tailVars>>
        /\ UNCHANGED <<sessionVars, parseVars, dirVars>>

\* deduplicator.filter_new_messages(messages)
FilterNewMessages(messages, pg_up, qdrant_up, tier_raises) ==
    \E r \in {filter_new_messages(messages, pg_up, qdrant_up, tier_raises)} :
        /\ batch_in' = messages
        /\ new_messages' = r.result
        /\ filter_log' = r.log
        /\ UNCHANGED <<now, enrichVars, storeVars, qdrantVars, saveVars, runVars>>
        /\ UNCHANGED <<batchVars, alertVars, tailVars>>
        /\ UNCHANGED <<sessionVars, parseVars, dirVars>>

\* ------------------------------------- the real-time moderator (tailer)
TailedFile == "chat.log"

\* Lines a chat client appends to the tailed file: a viewer's line, the
\* same line one second later, and a line no pattern matches.
TailLines ==
    { FullLine(0, <<"a">>, <<"h", "i">>),
      FullLine(TicksPerSec, <<"a">>, <<"h", "i">>),
      OtherLine(FALSE, <<"h", "i">>) }

NoEvent ==
    [ outcome |-> "none", error_printed |-> FALSE, tracked |-> FALSE,
      positions_before |-> <<>>, seen_before |-> 0, file_lines |-> 0,
      first |-> 0, count |-> 0, handed |-> <<>>, lookup_up |-> TRUE,
      pg_before |-> EmptyBag, size |-> 0, handed_texts |-> <<>>,
      skipped |-> <<>> ]

NoTurn ==
    [ lineno |-> 0, unembedded_before |-> FALSE, key |-> "", message_id |-> "",
      id_in_cache |-> FALSE, embedded |-> FALSE, qdrant_up |-> TRUE, pg_up |-> TRUE,
      point_id |-> "", postgres_attempted |-> FALSE, alerted |-> FALSE,
      points_same |-> TRUE, row_before |-> FALSE, row_after |-> FALSE ]

\* The bytes of one line on disk: LineBytes with its "\n", one more when
\* the file ends its lines with "\r\n".
LineLen == LineBytes + (IF crlf THEN 1 ELSE 0)

\* The bytes of the first write of a line that is written in two writes:
\* the line up to the first character of its text.
HeadBytes == 1

\* Byte offset of the end of a file of these lines (of the last line only
\* the first write is there while partial).
FileSize(lines) ==
    IF partial /\ lines # <<>>
    THEN (Len(lines) - 1) * LineLen + HeadBytes
    ELSE Len(lines) * LineLen

\* What the decoded text of these lines measures when it is encoded again:
\* universal newlines have made "\n" of every "\r\n".
DecodedSize(lines) ==
    IF partial /\ lines # <<>>
    THEN (Len(lines) - 1) * LineBytes + HeadBytes
    ELSE Len(lines) * LineBytes

\* The number of the first line f.readlines() returns after f.seek(pos).
FirstLineAt(pos) == (pos \div LineLen) + 1

\* What readlines() returns of a line: the line when it is read from its
\* start to its end, its first bytes when only the first write is there,
\* the rest of its text when the read starts after the first bytes, and
\* the bare "\n" when the read starts between "\r" and "\n".
LinePiece(line, offset, cut) ==
    IF cut THEN [line EXCEPT !.text = <<Head(line.text)>>]
    ELSE IF offset = 0 THEN line
    ELSE IF offset < LineBytes THEN OtherLine(FALSE, Tail(line.text))
    ELSE OtherLine(FALSE, <<>>)

\* f.seek(pos); f.readlines() that reads the file from its start.
ReadLines_from_start(lines, pos) == lines

\* f.seek(pos); f.readlines(): what is on disk from byte offset pos to the
\* end, cut into lines.
ReadLines(lines, pos) ==
    LET first == FirstLineAt(pos)
    IN  IF pos >= FileSize(lines) THEN <<>>
        ELSE [ i \in 1..(Len(lines) - first + 1) |->
                 LinePiece(lines[first + i - 1],
                           IF i = 1 THEN pos % LineLen ELSE 0,
                           partial /\ first + i - 1 = Len(lines)) ]

\* The key _quick_message_check and _process_message_batch_optimized build:
\* f"{message['username']}_{message['timestamp'].isoformat()}".
RealtimeKey(message_) ==
    Join(message_.username) \o "_" \o isoformat(message_.timestamp.v)

\* The string whose md5 is the content hash (the md5 itself is taken as
\* free of collisions).
ContentHash(message_) ==
    Join(message_.username) \o "_" \o Join(message_.text) \o "_" \o message_.timestamp_str

\* _quick_message_check: whether the message counts as processed, and
\* message_hashes afterwards.
_quick_message_check(message_, cache, hashes) ==
    IF RealtimeKey(message_) \in cache
    THEN [seen |-> TRUE, message_hashes |-> hashes]
    ELSE IF ContentHash(message_) \in hashes
    THEN [seen |-> TRUE, message_hashes |-> hashes]
    ELSE [seen |-> FALSE, message_hashes |-> hashes \cup {ContentHash(message_)}]

\* The pre-filter loop that puts each new message in front of the list.
RECURSIVE PreFilter_newest_first(_, _, _)
PreFilter_newest_first(entries, cache, hashes) ==
    IF entries = <<>> THEN [unprocessed |-> <<>>, message_hashes |-> hashes]
    ELSE LET c == _quick_message_check(Head(entries).message, cache, hashes)
             rest == PreFilter_newest_first(Tail(entries), cache, c.message_hashes)
         IN  [ unprocessed |-> rest.unprocessed
                                  \o (IF c.seen THEN <<>> ELSE <<Head(entries)>>),
               message_hashes |-> rest.message_hashes ]

\* The pre-filter loop of _process_message_batch_optimized over entries
\* [message, lineno].
RECURSIVE PreFilter(_, _, _)
PreFilter(entries, cache, hashes) ==
    IF entries = <<>> THEN [unprocessed |-> <<>>, message_hashes |-> hashes]
    ELSE LET c == _quick_message_check(Head(entries).message, cache, hashes)
             rest == PreFilter(Tail(entries), cache, c.message_hashes)
         IN  [ unprocessed |-> (IF c.seen THEN <<>> ELSE <<Head(entries)>>)
                                  \o rest.unprocessed,
               message_hashes |-> rest.message_hashes ]

\* The line numbers of the messages _quick_message_check skips for what the
\* cache and the hash set held before the call.
SeenEarlier(entries, cache, hashes) ==
    LET known == SelectSeq(entries,
                   LAMBDA e : \/ RealtimeKey(e.message) \in cache
                              \/ ContentHash(e.message) \in hashes)
    IN  [i \in 1..Len(known) |-> known[i].lineno]

\* The parsing loop of process_new_lines: the parsed lines in order, each
\* with the file name as file_source and (for the record) its line number.
RECURSIVE ParseNewLines(_, _, _)
ParseNewLines(lines, lineno, clock) ==
    IF lines = <<>> THEN <<>>
    ELSE LET parsed == _parse_line(Head(lines), FALSE, clock)
         IN  (IF parsed = <<>> THEN <<>>
              ELSE << [ message |-> [parsed[1] EXCEPT !.file_source = TailedFile],
                        lineno |-> lineno ] >>)
                 \o ParseNewLines(Tail(lines), lineno + 1, clock)

\* The part of _process_message_batch_optimized before its loop: the
\* pre-filter, then the look-up in the table, whose ids are compared with the
\* key of each message.
FinalMessages(entries, cache, hashes, pg_up) ==
    LET pre == PreFilter(entries, cache, hashes)
        unprocessed == [i \in 1..Len(pre.unprocessed) |-> pre.unprocessed[i].message]
        existing_ids == db_get_existing_message_ids(unprocessed, pg_up)
    IN  [ final_messages |->
              SelectSeq(pre.unprocessed,
                        LAMBDA e : RealtimeKey(e.message) \notin existing_ids),
          message_hashes |-> pre.message_hashes ]

\* process_new_lines that moves the cursor to the end of the file before it
\* reads (so a failed read loses the lines).
process_new_lines_cursor_first(exists, lines, positions, cache, hashes, read_ok, pg_up) ==
    LET tracked == TailedFile \in DOMAIN positions
        current_pos == IF tracked THEN positions[TailedFile] ELSE 0
        moved == [f \in {TailedFile} |-> FileSize(lines)]
        new_lines == ReadLines(lines, current_pos)
        entries == ParseNewLines(new_lines, FirstLineAt(current_pos), now)
        fin == FinalMessages(entries, cache, hashes, pg_up)
    IN  IF ~exists
        THEN [ outcome |-> "missing", error_printed |-> FALSE,
               file_positions |-> positions, first |-> 0, count |-> 0,
               handed |-> <<>>, handed_texts |-> <<>>, skipped |-> <<>>,
               final_messages |-> <<>>, message_hashes |-> hashes ]
        ELSE IF ~read_ok
        THEN [ outcome |-> "error", error_printed |-> TRUE,
               file_positions |-> moved, first |-> 0, count |-> 0,
               handed |-> <<>>, handed_texts |-> <<>>, skipped |-> <<>>,
               final_messages |-> <<>>, message_hashes |-> hashes ]
        ELSE [ outcome |-> "read", error_printed |-> FALSE,
               file_positions |-> moved,
               first |-> FirstLineAt(current_pos), count |-> Len(new_lines),
               handed |-> [i \in 1..Len(entries) |-> entries[i].lineno],
               handed_texts |-> [i \in 1..Len(entries) |-> entries[i].message.text],
               skipped |-> SeenEarlier(entries, cache, hashes),
               final_messages |-> IF entries = <<>> THEN <<>> ELSE fin.final_messages,
               message_hashes |-> IF entries = <<>> THEN hashes ELSE fin.message_hashes ]

\* process_new_lines that forgets the cursor of the file when the read
\* fails.
process_new_lines_forget_on_error(exists, lines, positions, cache, hashes, read_ok, pg_up) ==
    LET tracked == TailedFile \in DOMAIN positions
        current_pos == IF tracked THEN positions[TailedFile] ELSE 0
        moved == [f \in {TailedFile} |-> FileSize(lines)]
        new_lines == ReadLines(lines, current_pos)
        entries == ParseNewLines(new_lines, FirstLineAt(current_pos), now)
        fin == FinalMessages(entries, cache, hashes, pg_up)
    IN  IF ~exists
        THEN [ outcome |-> "missing", error_printed |-> FALSE,
               file_positions |-> positions, first |-> 0, count |-> 0,
               handed |-> <<>>, handed_texts |-> <<>>, skipped |-> <<>>,
               final_messages |-> <<>>, message_hashes |-> hashes ]
        ELSE IF ~read_ok
        THEN [ outcome |-> "error", error_printed |-> TRUE,
               file_positions |-> <<>>, first |-> 0, count |-> 0,
               handed |-> <<>>, handed_texts |-> <<>>, skipped |-> <<>>,
               final_messages |-> <<>>, message_hashes |-> hashes ]
        ELSE [ outcome |-> "read", error_printed |-> FALSE,
               file_positions |-> moved,
               first |-> FirstLineAt(current_pos), count |-> Len(new_lines),
               handed |-> [i \in 1..Len(entries) |-> entries[i].lineno],
               handed_texts |-> [i \in 1..Len(entries) |-> entries[i].message.text],
               skipped |-> SeenEarlier(entries, cache, hashes),
               final_messages |-> IF entries = <<>> THEN <<>> ELSE fin.final_messages,
               message_hashes |-> IF entries = <<>> THEN hashes ELSE fin.message_hashes ]

\* OptimizedModeradorSemantico.process_new_lines up to the loop of
\* _process_message_batch_optimized.  exists: Path(filepath).exists();
\* read_ok: open, seek and readlines do not raise.  handed: the line numbers
\* of the messages given to _process_message_batch_optimized.
process_new_lines(exists, lines, positions, cache, hashes, read_ok, pg_up) ==
    LET tracked == TailedFile \in DOMAIN positions
        current_pos == IF tracked THEN positions[TailedFile] ELSE 0
        new_lines == ReadLines(lines, current_pos)
        entries == ParseNewLines(new_lines, FirstLineAt(current_pos), now)
        fin == FinalMessages(entries, cache, hashes, pg_up)
    IN  IF ~exists
        THEN [ outcome |-> "missing", error_printed |-> FALSE,
               file_positions |-> positions, first |-> 0, count |-> 0,
               handed |-> <<>>, handed_texts |-> <<>>, skipped |-> <<>>,
               final_messages |-> <<>>, message_hashes |-> hashes ]
        ELSE IF ~read_ok
        THEN [ outcome |-> "error", error_printed |-> TRUE,
               file_positions |-> positions, first |-> 0, count |-> 0,
               handed |-> <<>>, handed_texts |-> <<>>, skipped |-> <<>>,
               final_messages |-> <<>>, message_hashes |-> hashes ]
        ELSE [ outcome |-> "read", error_printed |-> FALSE,
               file_positions |-> [f \in {TailedFile} |-> FileSize(lines)],
               first |-> FirstLineAt(current_pos), count |-> Len(new_lines),
               handed |-> [i \in 1..Len(entries) |-> entries[i].lineno],
               handed_texts |-> [i \in 1..Len(entries) |-> entries[i].message.text],
               skipped |-> SeenEarlier(entries, cache, hashes),
               final_messages |-> IF entries = <<>> THEN <<>> ELSE fin.final_messages,
               message_hashes |-> IF entries = <<>> THEN hashes ELSE fin.message_hashes ]

\* OptimizedModeradorSemantico._initial_catchup for the tailed file, up to
\* the loop of _process_message_batch_optimized.  exists: the glob finds the
\* file; read_ok: open and readlines do not raise.  The cursor is the
\* length of the decoded lines, encoded again.
_initial_catchup(exists, lines, cache, hashes, read_ok, pg_up) ==
    LET read == ReadLines(lines, 0)
        entries == ParseNewLines(read, 1, now)
        fin == FinalMessages(entries, cache, hashes, pg_up)
    IN  IF ~exists
        THEN [ outcome |-> "nofile", error_printed |-> FALSE,
               file_positions |-> <<>>, first |-> 0, count |-> 0,
               handed |-> <<>>, handed_texts |-> <<>>, skipped |-> <<>>,
               final_messages |-> <<>>, message_hashes |-> hashes ]
        ELSE IF ~read_ok
        THEN [ outcome |-> "unread", error_printed |-> TRUE,
               file_positions |-> <<>>, first |-> 0, count |-> 0,
               handed |-> <<>>, handed_texts |-> <<>>, skipped |-> <<>>,
               final_messages |-> <<>>, message_hashes |-> hashes ]
        ELSE [ outcome |-> "catchup", error_printed |-> FALSE,
               file_positions |-> [f \in {TailedFile} |-> DecodedSize(lines)],
               first |-> 1, count |-> Len(read),
               handed |-> [i \in 1..Len(entries) |-> entries[i].lineno],
               handed_texts |-> [i \in 1..Len(entries) |-> entries[i].message.text],
               skipped |-> SeenEarlier(entries, cache, hashes),
               final_messages |-> IF entries = <<>> THEN <<>> ELSE fin.final_messages,
               message_hashes |-> IF entries = <<>> THEN hashes ELSE fin.message_hashes ]

\* One turn of the loop of _process_message_batch_optimized that writes
\* without an embedding.
_process_message_optimized_unembedded(message_, response, embedding_ok, qdrant_up, pg_up) ==
    LET analysis == analyze_message(message_, response, now)
        added == add_message(message_, analysis, qdrant_up)
        saved == save_analysis(message_, analysis, added.point_id, pg_up)
    IN  [ analysis |-> analysis, embedded |-> embedding_ok,
          point_id |-> added.point_id, points |-> added.points, pg |-> saved.pg,
          postgres_attempted |-> TRUE,
          cache_add |-> {RealtimeKey(message_)},
          alerted |-> /\ analysis.requires_action
                      /\ Lower(message_.username) # streamer_username ]

\* One turn of the loop of _process_message_batch_optimized on a message as
\* the parser left it: classify, embed, and with an embedding add_message,
\* save_analysis (whatever add_message returned), the key into the cache,
\* and the alert check.
_process_message_optimized(message_, response, embedding_ok, qdrant_up, pg_up) ==
    LET analysis == analyze_message(message_, response, now)
        added == add_message(message_, analysis, qdrant_up)
        saved == save_analysis(message_, analysis, added.point_id, pg_up)
    IN  IF embedding_ok
        THEN [ analysis |-> analysis, embedded |-> TRUE,
               point_id |-> added.point_id, points |-> added.points, pg |-> saved.pg,
               postgres_attempted |-> TRUE,
               cache_add |-> {RealtimeKey(message_)},
               alerted |-> /\ analysis.requires_action
                           /\ Lower(message_.username) # streamer_username ]
        ELSE [ analysis |-> analysis, embedded |-> FALSE,
               point_id |-> "", points |-> points, pg |-> pg,
               postgres_attempted |-> FALSE, cache_add |-> {}, alerted |-> FALSE ]

\* OptimizedModeradorSemantico(): a new process; the cache takes the
\* message ids of the table's recent rows (every row of the model is
\* recent), or stays empty when the query fails.
StartModerator(pg_up) ==
    /\ pc = "idle"
    /\ rt_pc # "loop"
    /\ rt_pc = "off" => runs = 0
    /\ rt_pc' = "on"
    /\ collection_name' = ""
    /\ is_fresh_collection' = FALSE
    /\ processed_message_cache' = IF pg_up THEN RowIds(pg) ELSE {}
    /\ file_positions' = <<>>
    /\ message_hashes' = {}
    /\ rt_queue' = <<>>
    /\ rt_event' = NoEvent
    /\ rt_turn' = NoTurn
    /\ rt_done' = <<>>
    /\ UNCHANGED <<disk, on_disk, seen_lines>>
    /\ UNCHANGED <<now, enrichVars, storeVars, filterVars, saveVars, batchVars, alertVars>>
    /\ UNCHANGED runVars
    /\ UNCHANGED <<partial, crlf>>
    /\ UNCHANGED <<sessionVars, parseVars, dirVars>>

\* The chat client appends one complete line to the tailed file (and
\* creates the file with its first line).
AppendLine(line) ==
    /\ Len(disk) < MaxLines
    /\ disk = <<>> \/ on_disk
    /\ ~partial
    /\ disk' = Append(disk, line)
    /\ on_disk' = TRUE
    /\ UNCHANGED <<rt_pc, file_positions, processed_message_cache, message_hashes,
                   rt_queue, rt_event, rt_turn, rt_done, seen_lines>>
    /\ UNCHANGED <<now, enrichVars, storeVars, qdrantVars, filterVars, saveVars, runVars>>
    /\ UNCHANGED <<batchVars, alertVars>>
    /\ UNCHANGED <<partial, crlf>>
    /\ UNCHANGED <<sessionVars, parseVars, dirVars>>

\* The chat client is set to end the lines of its log with "\r\n" (before
\* it creates the file).
UseCrlf ==
    /\ disk = <<>>
    /\ ~crlf
    /\ crlf' = TRUE
    /\ UNCHANGED <<rt_pc, disk, on_disk, file_positions, processed_message_cache,
                   message_hashes, rt_queue, rt_event, rt_turn, rt_done, seen_lines,
                   partial>>
    /\ UNCHANGED <<now, enrichVars, storeVars, qdrantVars, filterVars, saveVars, runVars>>
    /\ UNCHANGED <<batchVars, alertVars>>
    /\ UNCHANGED <<sessionVars, parseVars, dirVars>>

\* The chat client appends a message line in two writes; this is the first:
\* the line up to the first character of its text.
WriteHead(line) ==
    /\ Len(disk) < MaxLines
    /\ disk = <<>> \/ on_disk
    /\ ~partial
    /\ line.fmt = "full"
    /\ disk' = Append(disk, line)
    /\ on_disk' = TRUE
    /\ partial' = TRUE
    /\ UNCHANGED <<rt_pc, file_positions, processed_message_cache, message_hashes,
                   rt_queue, rt_event, rt_turn, rt_done, seen_lines, crlf>>
    /\ UNCHANGED <<now, enrichVars, storeVars, qdrantVars, filterVars, saveVars, runVars>>
    /\ UNCHANGED <<batchVars, alertVars>>
    /\ UNCHANGED <<sessionVars, parseVars, dirVars>>

\* The second write: the rest of the line and its line end.
WriteRest ==
    /\ partial
    /\ partial' = FALSE
    /\ UNCHANGED <<rt_pc, disk, on_disk, file_positions, processed_message_cache,
                   message_hashes, rt_queue, rt_event, rt_turn, rt_done, seen_lines,
                   crlf>>
    /\ UNCHANGED <<now, enrichVars, storeVars, qdrantVars, filterVars, saveVars, runVars>>
    /\ UNCHANGED <<batchVars, alertVars>>
    /\ UNCHANGED <<sessionVars, parseVars, dirVars>>

\* The tailed file is deleted.
DeleteFile ==
    /\ on_disk
    /\ on_disk' = FALSE
    /\ UNCHANGED <<rt_pc, disk, file_positions, processed_message_cache, message_hashes,
                   rt_queue, rt_event, rt_turn, rt_done, seen_lines>>
    /\ UNCHANGED <<now, enrichVars, storeVars, qdrantVars, filterVars, saveVars, runVars>>
    /\ UNCHANGED <<batchVars, alertVars>>
    /\ UNCHANGED <<partial, crlf>>
    /\ UNCHANGED <<sessionVars, parseVars, dirVars>>

\* LogFileWatcher.on_modified(event) for the tailed file (an event for a
\* directory or for a path that does not end in .log changes nothing), and
\* process_new_lines up to the loop of _process_message_batch_optimized.
OnModified(is_directory, is_log, read_ok, pg_up) ==
    /\ rt_pc = "on"
    /\ IF is_directory \/ ~is_log
       THEN UNCHANGED <<rt_pc, file_positions, message_hashes, rt_queue, rt_event,
                        rt_turn, seen_lines>>
       ELSE \E r \in {process_new_lines(on_disk, disk, file_positions,
                                         processed_message_cache, message_hashes,
                                         read_ok, pg_up)} :
              /\ file_positions' = r.file_positions
              /\ message_hashes' = r.message_hashes
              /\ rt_queue' = r.final_messages
              /\ rt_pc' = IF r.final_messages = <<>> THEN "on" ELSE "loop"
              /\ rt_turn' = NoTurn
              /\ seen_lines' = IF r.outcome = "read" THEN Len(disk) ELSE seen_lines
              /\ rt_event' =
                    [ outcome |-> r.outcome, error_printed |-> r.error_printed,
                      tracked |-> TailedFile \in DOMAIN file_positions,
                      positions_before |-> file_positions,
                      seen_before |-> seen_lines, file_lines |-> Len(disk),
                      first |-> r.first, count |-> r.count, handed |-> r.handed,
                      lookup_up |-> pg_up, pg_before |-> pg,
                      size |-> FileSize(disk), handed_texts |-> r.handed_texts,
                      skipped |-> r.skipped ]
    /\ UNCHANGED <<disk, on_disk, processed_message_cache, rt_done>>
    /\ UNCHANGED <<now, enrichVars, storeVars, qdrantVars, filterVars, saveVars, runVars>>
    /\ UNCHANGED <<batchVars, alertVars>>
    /\ UNCHANGED <<partial, crlf>>
    /\ UNCHANGED <<sessionVars, parseVars, dirVars>>

\* start_realtime_monitoring of a new process: _initial_catchup on the
\* tailed file up to the loop of _process_message_batch_optimized, then the
\* observer is started.
InitialCatchup(read_ok, pg_up) ==
    /\ rt_pc = "on"
    /\ rt_event = NoEvent
    /\ \E r \in {_initial_catchup(on_disk, disk, processed_message_cache,
                                   message_hashes, read_ok, pg_up)} :
          /\ file_positions' = r.file_positions
          /\ message_hashes' = r.message_hashes
          /\ rt_queue' = r.final_messages
          /\ rt_pc' = IF r.final_messages = <<>> THEN "on" ELSE "loop"
          /\ rt_turn' = NoTurn
          /\ seen_lines' = IF r.outcome = "catchup" THEN Len(disk) ELSE seen_lines
          /\ rt_event' =
                [ outcome |-> r.outcome, error_printed |-> r.error_printed,
                  tracked |-> FALSE, positions_before |-> file_positions,
                  seen_before |-> seen_lines, file_lines |-> Len(disk),
                  first |-> r.first, count |-> r.count, handed |-> r.handed,
                  lookup_up |-> pg_up, pg_before |-> pg,
                  size |-> FileSize(disk), handed_texts |-> r.handed_texts,
                  skipped |-> r.skipped ]
    /\ UNCHANGED <<disk, on_disk, processed_message_cache, rt_done>>
    /\ UNCHANGED <<now, enrichVars, storeVars, qdrantVars, filterVars, saveVars, runVars>>
    /\ UNCHANGED <<batchVars, alertVars>>
    /\ UNCHANGED <<partial, crlf>>
    /\ UNCHANGED <<sessionVars, parseVars, dirVars>>

\* What rt_turn keeps of one turn of the loop; unembedded_before: an earlier
\* turn of the same call got no embedding.
RealtimeRecord(e, t, qdrant_up, pg_up) ==
    [ lineno |-> e.lineno,
      unembedded_before |-> rt_turn.lineno # 0
                               /\ (rt_turn.unembedded_before \/ ~rt_turn.embedded),
      key |-> RealtimeKey(e.message),
      message_id |-> t.analysis.message_id,
      id_in_cache |-> t.analysis.message_id \in processed_message_cache,
      embedded |-> t.embedded,
      qdrant_up |-> qdrant_up,
      pg_up |-> pg_up,
      point_id |-> t.point_id,
      postgres_attempted |-> t.postgres_attempted,
      alerted |-> t.alerted,
      points_same |-> t.points = points,
      row_before |-> t.analysis.message_id \in RowIds(pg),
      row_after |-> t.analysis.message_id \in RowIds(t.pg) ]

\* One turn of the loop of _process_message_batch_optimized.
ProcessRealtimeMessage(response, embedding_ok, qdrant_up, pg_up) ==
    /\ rt_pc = "loop"
    /\ \E t \in {_process_message_optimized(Head(rt_queue).message, response,
                                             embedding_ok, qdrant_up, pg_up)} :
          /\ points' = t.points
          /\ pg' = t.pg
          /\ processed_message_cache' = processed_message_cache \cup t.cache_add
          /\ rt_turn' = RealtimeRecord(Head(rt_queue), t, qdrant_up, pg_up)
    /\ rt_done' = Append(rt_done, Head(rt_queue).lineno)
    /\ rt_queue' = Tail(rt_queue)
    /\ rt_pc' = IF Tail(rt_queue) = <<>> THEN "on" ELSE "loop"
    /\ UNCHANGED <<disk, on_disk, file_positions, message_hashes, rt_event, seen_lines>>
    /\ UNCHANGED <<now, enrichVars, existing, qdrantVars, filterVars, saveVars, runVars>>
    /\ UNCHANGED <<batchVars, alertVars>>
    /\ UNCHANGED <<partial, crlf>>
    /\ UNCHANGED <<sessionVars, parseVars, dirVars>>

\* The modification events the observer delivers: for a directory, for a
\* file that is no log, and for the tailed file, whose read fails or works,
\* with the table answering the look-up or not.
Events ==
    { [is_directory |-> TRUE, is_log |-> FALSE, read_ok |-> TRUE, pg_up |-> TRUE],
      [is_directory |-> FALSE, is_log |-> FALSE, read_ok |-> TRUE, pg_up |-> TRUE],
      [is_directory |-> FALSE, is_log |-> TRUE, read_ok |-> FALSE, pg_up |-> TRUE],
      [is_directory |-> FALSE, is_log |-> TRUE, read_ok |-> TRUE, pg_up |-> TRUE],
      [is_directory |-> FALSE, is_log |-> TRUE, read_ok |-> TRUE, pg_up |-> FALSE] }

\* What the embedding service and the stores can do during one turn of the
\* real-time loop; with an embedding both stores are asked.
RealtimeOutcomes ==
    { [embedding_ok |-> TRUE, qdrant_up |-> a, pg_up |-> b] : a \in BOOLEAN, b \in BOOLEAN }
        \cup { [embedding_ok |-> FALSE, qdrant_up |-> TRUE, pg_up |-> TRUE] }

\* ------------------------------------------- a call of parser._parse_line
\* Lines a caller hands to _parse_line: dated and hour-only lines, lines no
\* pattern matches with and without a colon (the empty line among them),
\* and a line whose timestamp does not parse.
ParserLines ==
    { FullLine(t, u, tx) : t \in {0, TicksPerSec}, u \in {<<"a">>, <<" ">>}, tx \in Texts }
        \cup { HourLine(1, <<"a">>, tx) : tx \in Texts }
        \cup { OtherLine(c, tx) : c \in BOOLEAN, tx \in Texts \cup {<<" ", "y", "o">>} }
        \cup { OtherLine(FALSE, <<>>), BadDateLine(<<"h", "i">>) }

\* parser._parse_line(line, debug_mode=debug_mode)
ParseLine(line, debug_mode) ==
    /\ parse_call' = [ line |-> line, debug_mode |-> debug_mode, clock |-> now,
                       called |-> TRUE,
                       result |-> _parse_line(line, debug_mode, now) ]
    /\ UNCHANGED <<now, enrichVars, storeVars, qdrantVars, filterVars, saveVars, runVars>>
    /\ UNCHANGED <<batchVars, alertVars, tailVars, sessionVars, dirVars>>

\* ------------------------------------------------------ session_tracker.py
MaxCount == 2          \* largest value a caller passes to update_stats

\* The counters of SessionTracker._session_stats (start_time, which no
\* counter depends on, is left out).
Counters == {"processed_count", "duplicate_count", "alert_count", "error_count"}

\* SessionTracker.reset_session: the dict it assigns.
reset_session == [k \in Counters |-> 0]

\* SessionTracker.update_stats(key=value): a key the dict does not hold is
\* ignored, any other is assigned.
update_stats(stats, key, value) ==
    IF key \in DOMAIN stats THEN [stats EXCEPT ![key] = value] ELSE stats

\* SessionTracker.increment_stat(stat_name, increment)
increment_stat(stats, stat_name, increment) ==
    IF stat_name \in DOMAIN stats THEN [stats EXCEPT ![stat_name] = @ + increment]
    ELSE stats

\* session.update_stats(key=value) by any caller.
UpdateStats(key, value) ==
    /\ _session_stats' = update_stats(_session_stats, key, value)
    /\ UNCHANGED <<now, enrichVars, storeVars, qdrantVars, filterVars, saveVars, runVars>>
    /\ UNCHANGED <<batchVars, alertVars, tailVars, parseVars, dirVars>>

\* session.increment_stat(stat_name, increment) by any caller; the model
\* stops at counters between -1 and MaxCount.
IncrementStat(stat_name, increment) ==
    /\ \E r \in {increment_stat(_session_stats, stat_name, increment)} :
          /\ \A k \in Counters : r[k] \in -1..MaxCount
          /\ _session_stats' = r
    /\ UNCHANGED <<now, enrichVars, storeVars, qdrantVars, filterVars, saveVars, runVars>>
    /\ UNCHANGED <<batchVars, alertVars, tailVars, parseVars, dirVars>>

\* ------------------------------------------------------------------ clock
Tick ==
    /\ now < MaxClock
    /\ now' = now + 1
    /\ UNCHANGED <<enrichVars, storeVars, qdrantVars, filterVars, saveVars, runVars>>
    /\ UNCHANGED <<batchVars, alertVars, tailVars>>
    /\ UNCHANGED <<sessionVars, parseVars, dirVars>>

\* ------------------------------------------------- enrichment of a message
\* enrich_message(msg) on a message not enriched before.
EnrichNew(msg) ==
    /\ message' = enrich_message(msg, "unknown", now)
    /\ previous' = message
    /\ raw_username' = msg.username
    /\ enrich_calls' = 1
    /\ first_enriched' = message'
    /\ UNCHANGED <<now, storeVars, qdrantVars, filterVars, saveVars, runVars>>
    /\ UNCHANGED <<batchVars, alertVars, tailVars>>
    /\ UNCHANGED <<sessionVars, parseVars, dirVars>>

\* enrich_message(msg) on the message it already enriched (the dedup engine
\* and the batch processor both do this).
EnrichAgain ==
    /\ enrich_calls \in 1..2
    /\ message' = enrich_message(message, "unknown", now)
    /\ enrich_calls' = enrich_calls + 1
    /\ UNCHANGED <<now, previous, raw_username, first_enriched>>
    /\ UNCHANGED <<storeVars, qdrantVars, filterVars, saveVars, runVars>>
    /\ UNCHANGED <<batchVars, alertVars, tailVars>>
    /\ UNCHANGED <<sessionVars, parseVars, dirVars>>

\* Before the first _parse_line call.
NoParse == [line |-> OtherLine(FALSE, <<>>), debug_mode |-> FALSE, clock |-> 0,
            called |-> FALSE, result |-> <<>>]

InitMessages ==
    /\ message = NoMessage
    /\ previous = NoMessage
    /\ raw_username = <<>>
    /\ enrich_calls = 0
    /\ first_enriched = NoMessage

\* No collection, an empty table, a vector store built without a file path
\* (collection_name None, is_fresh_collection False) and no call made yet.
InitStores ==
    /\ points = [c \in CollectionNames |-> EmptyBag]
    /\ pg = EmptyBag
    /\ collection_name = ""
    /\ is_fresh_collection = FALSE
    /\ batch_in = <<>>
    /\ new_messages = <<>>
    /\ filter_log = NoCall
    /\ last_save = NoSave
    /\ batch_written = {}
    /\ pc = "idle"
    /\ filepath = ""
    /\ idx = 0
    /\ runs = 0
    /\ run_clean = FALSE
    /\ clean_files = {}
    /\ rerun = FALSE
    /\ bp_pc = "idle"
    /\ bp_messages = <<>>
    /\ bp_i = 0
    /\ batch_alerts = <<>>
    /\ alerts = <<>>
    /\ alert_ids = {}
    /\ bp_log = <<>>
    /\ scored = NoResponse
    /\ severity = ""
    /\ rt_pc = "off"
    /\ disk = <<>>
    /\ on_disk = FALSE
    /\ file_positions = <<>>
    /\ processed_message_cache = {}
    /\ message_hashes = {}
    /\ rt_queue = <<>>
    /\ rt_event = NoEvent
    /\ rt_turn = NoTurn
    /\ rt_done = <<>>
    /\ seen_lines = 0
    /\ partial = FALSE
    /\ crlf = FALSE
    /\ priority = ""
    /\ _session_stats = reset_session
    /\ parse_call = NoParse
    /\ log_files = <<>>
    /\ crashed = FALSE

InitEnrich ==
    /\ now = 0
    /\ InitMessages
    /\ existing = {}
    /\ InitStores

NextEnrich ==
    \/ Tick
    \/ \E msg \in RawMessages : EnrichNew(msg)
    \/ EnrichAgain

\* What the stores and the thread pool can do during one filter_new_messages
\* call; the stores are not asked after the pool failed, and neither the pool
\* nor the stores are used for a fresh collection.
FilterOutcomes ==
    IF is_fresh_collection
    THEN { [pg_up |-> TRUE, qdrant_up |-> TRUE, tier_raises |-> FALSE] }
    ELSE { [pg_up |-> a, qdrant_up |-> b, tier_raises |-> FALSE] :
                a \in BOOLEAN, b \in BOOLEAN }
            \cup { [pg_up |-> TRUE, qdrant_up |-> TRUE, tier_raises |-> TRUE] }

InitDedup ==
    /\ now = 0
    /\ InitMessages
    /\ existing = {}
    /\ InitStores

NextDedup ==
    \/ \E f \in FileNames, up \in BOOLEAN : Construct(f, up)
    \/ \E f \in FileNames, up \in BOOLEAN : SetCollectionForFile(f, up)
    \/ \E m \in ParsedPool, qdrant_up \in BOOLEAN : AddMessage(m, qdrant_up)
    \/ \E m \in ParsedPool, pg_up \in BOOLEAN : SaveAnalysis(m, "uuid", pg_up)
    \/ \E b \in Batches, o \in FilterOutcomes :
          FilterNewMessages(b, o.pg_up, o.qdrant_up, o.tier_raises)

\* ------------------------------------------- runs of main.py --file <f>
\* What the stores can do during one _save_with_verification call; the table
\* is not asked after the vector store failed.
SaveOutcomes ==
    { [qdrant_up |-> TRUE, pg_up |-> TRUE], [qdrant_up |-> TRUE, pg_up |-> FALSE],
      [qdrant_up |-> FALSE, pg_up |-> TRUE] }

\* ModeradorSemantico(file_path): the vector store is built for the file
\* (_ensure_collection) and set_collection_for_file is called on it.
NewModerador(file_path, ensure_up, set_up) ==
    /\ pc = "idle"
    /\ runs < MaxRuns
    /\ \E e \in {_ensure_collection(_generate_collection_name(file_path), existing,
                                      FALSE, ensure_up)} :
       \E r \in {set_collection_for_file(file_path, e.existing, set_up)} :
          /\ collection_name' = r.collection_name
          /\ existing' = r.existing
          /\ is_fresh_collection' = r.is_fresh_collection
    /\ pc' = "constructed"
    /\ filepath' = file_path
    /\ runs' = runs + 1
    /\ UNCHANGED <<now, enrichVars, points, pg, filterVars, saveVars>>
    /\ UNCHANGED <<idx, run_clean, clean_files, rerun>>
    /\ UNCHANGED <<batchVars, alertVars, tailVars>>
    /\ _session_stats' = reset_session
    /\ UNCHANGED <<parseVars, dirVars>>

\* ModeradorSemantico.process_log_file up to the batch loop: parse_file,
\* filter_new_messages, session.update_stats(duplicate_count=...), and the
\* return when nothing is new.
ProcessLogFile(pg_up, qdrant_up, tier_raises) ==
    /\ pc = "constructed"
    /\ \E messages \in {parse_file(filepath, FALSE, now)} :
          IF messages = <<>>
          THEN /\ pc' = "idle"
               /\ UNCHANGED <<filterVars, idx, run_clean, rerun, sessionVars>>
          ELSE \E r \in {filter_new_messages(messages, pg_up, qdrant_up, tier_raises)} :
                  /\ batch_in' = messages
                  /\ new_messages' = r.result
                  /\ filter_log' = r.log
                  /\ _session_stats' =
                        update_stats(_session_stats, "duplicate_count",
                                     Len(messages) - Len(r.result))
                  /\ rerun' = (filepath \in clean_files)
                  /\ run_clean' = TRUE
                  /\ IF r.result = <<>>
                     THEN pc' = "idle" /\ idx' = 0
                     ELSE pc' = "batch" /\ idx' = 1
    /\ UNCHANGED <<now, enrichVars, storeVars, qdrantVars, saveVars>>
    /\ UNCHANGED <<filepath, runs, clean_files>>
    /\ UNCHANGED <<batchVars, alertVars, tailVars>>
    /\ UNCHANGED <<parseVars, dirVars>>

\* One turn of the loop of MessageProcessor._process_single_batch: enrich,
\* classify, embed, and _save_with_verification when there is an embedding.
\* embedding_ok is FALSE when get_embedding returns nothing or the analyzer
\* raises.
ProcessMessage(embedding_ok, qdrant_up, pg_up) ==
    /\ pc = "batch"
    /\ idx <= Len(new_messages)
    /\ \E m \in {enrich_message(new_messages[idx], "unknown", now)} :
          /\ new_messages' = [new_messages EXCEPT ![idx] = m]
          /\ IF embedding_ok
             THEN \E r \in {_save_with_verification(m, [message_id |-> m.message_id],
                                                      qdrant_up, pg_up)} :
                     /\ points' = r.points
                     /\ pg' = r.pg
                     /\ last_save' = SaveRecord(m, r)
                     /\ batch_written' =
                           IF r.pg # pg
                           THEN batch_written \cup {[message_id |-> m.message_id,
                                                      collection |-> collection_name]}
                           ELSE batch_written
                     /\ run_clean' =
                           /\ run_clean
                           /\ collection_name # ""
                           /\ m.message_id \in {p.message_id :
                                    p \in BagToSet(r.points[collection_name])}
                           /\ m.message_id \in RowIds(r.pg)
             ELSE /\ run_clean' = FALSE
                  /\ UNCHANGED <<points, pg, saveVars>>
    /\ idx' = idx + 1
    /\ UNCHANGED <<now, enrichVars, existing, qdrantVars, batch_in, filter_log>>
    /\ UNCHANGED <<pc, filepath, runs, clean_files, rerun>>
    /\ UNCHANGED <<batchVars, alertVars, tailVars>>
    /\ UNCHANGED <<sessionVars, parseVars, dirVars>>

\* QdrantVectorStore.count_points: a failing request (server down, no such
\* collection, collection_name None) is caught and counted as 0.
count_points(qdrant_up) ==
    IF ~qdrant_up \/ collection_name \notin existing THEN 0
    ELSE BagCardinality(points[collection_name])

\* DatabaseManager.get_messages_by_file_source: a failing query is caught
\* and yields no row.
get_messages_by_file_source(file_source, pg_up) ==
    IF ~pg_up THEN {} ELSE {r \in BagToSet(pg) : r.file_source = file_source}

\* ModeradorSemantico.restore_vector_store: TRUE when it raises.  With no
\* row of the file it returns; for the first row with a text it calls
\* vector_store.upsert_message, a method QdrantVectorStore does not have
\* (AttributeError; every text of the model is non-empty).
restore_vector_store(file_path, pg_up) ==
    get_messages_by_file_source(file_path, pg_up) # {}

\* The rest of process_log_file after the batch loop: alerts file,
\* analytics and summary (which write to neither store), then
\* restore_vector_store when count_points() is 0.  Nothing catches what
\* restore_vector_store raises, neither here nor in main.
FinishLogFile(qdrant_up, pg_up) ==
    /\ pc = "batch"
    /\ idx > Len(new_messages)
    /\ pc' = "idle"
    /\ clean_files' = IF run_clean THEN clean_files \cup {filepath} ELSE clean_files
    /\ crashed' = /\ count_points(qdrant_up) = 0
                  /\ restore_vector_store(filepath, pg_up)
    /\ UNCHANGED <<now, enrichVars, storeVars, qdrantVars, filterVars, saveVars>>
    /\ UNCHANGED <<filepath, idx, runs, run_clean, rerun>>
    /\ UNCHANGED <<batchVars, alertVars, tailVars>>
    /\ UNCHANGED <<sessionVars, parseVars, log_files>>

\* ----------------------------- a run of main.py --batch over the log files
\* One turn of the loop of _process_message_batch_optimized of a real-time
\* moderator that tailed log file f before the batch run, on line k of f
\* (the parser's message with the file name as file_source).
ProcessTailedLine(f, k, response, pg_up) ==
    /\ pc = "idle"
    /\ runs = 0
    /\ collection_name = ""
    /\ k \in 1..Len(LogFile(f))
    /\ _parse_line(LogFile(f)[k], FALSE, now) # <<>>
    /\ \E m \in {[_parse_line(LogFile(f)[k], FALSE, now)[1] EXCEPT !.file_source = f]} :
       \E t \in {_process_message_optimized(m, response, TRUE, TRUE, pg_up)} :
          /\ points' = t.points
          /\ pg' = t.pg
    /\ UNCHANGED <<now, enrichVars, existing, qdrantVars, filterVars, saveVars, runVars>>
    /\ UNCHANGED <<batchVars, alertVars, tailVars>>
    /\ UNCHANGED <<sessionVars, parseVars, dirVars>>

\* main with --batch: ModeradorSemantico(file_path=None) (a vector store
\* without collection, a new session) and log_files = list(glob("*.log")),
\* in the order the directory gives them.
StartBatchRun(files) ==
    /\ pc = "idle"
    /\ runs = 0
    /\ runs' = 1
    /\ collection_name' = ""
    /\ is_fresh_collection' = FALSE
    /\ _session_stats' = reset_session
    /\ log_files' = files
    /\ crashed' = FALSE
    /\ UNCHANGED <<now, enrichVars, storeVars, filterVars, saveVars>>
    /\ UNCHANGED <<pc, filepath, idx, run_clean, clean_files, rerun>>
    /\ UNCHANGED <<batchVars, alertVars, tailVars, parseVars>>

\* The loop of main takes the next file: moderador.process_log_file(f).
NextLogFile ==
    /\ pc = "idle"
    /\ runs = 1
    /\ ~crashed
    /\ log_files # <<>>
    /\ filepath' = Head(log_files)
    /\ log_files' = Tail(log_files)
    /\ pc' = "constructed"
    /\ UNCHANGED <<now, enrichVars, storeVars, qdrantVars, filterVars, saveVars>>
    /\ UNCHANGED <<idx, runs, run_clean, clean_files, rerun, crashed>>
    /\ UNCHANGED <<batchVars, alertVars, tailVars>>
    /\ UNCHANGED <<sessionVars, parseVars>>

\* The orders in which glob can list the log files.
FileOrders == {o \in FileNames \X FileNames : o[1] # o[2]}

\* ------------------------------ a call of process_messages_batch(messages)
\* Parsed messages a caller hands to the batch processor: one of a viewer and
\* one of the streamer.
BatchPool ==
    { _parse_line(FullLine(0, <<"a">>, <<"h", "i">>), FALSE, 0)[1],
      _parse_line(FullLine(0, StreamerName, <<"y", "o">>), FALSE, 0)[1] }

\* Lists long enough to need a second chunk.
CallLists == SeqsUpTo(BatchPool, BATCH_SIZE + 1)

\* What the classification service can answer to one request.
Responses == { NoResponse, Verdict(TRUE, 80, 0), Verdict(FALSE, 0, 0) }

\* What bp_log keeps of one loop turn: the inputs of the turn, what it
\* returned, and where the message_id was before and after it.
TurnRecord(i, t, response, embedding_ok, qdrant_up, pg_up) ==
    LET id == t.message.message_id
        held(cols) == collection_name \in existing
                        /\ id \in {x.message_id : x \in BagToSet(cols[collection_name])}
    IN  [ message_id |-> id,
          chunk |-> ((i - 1) \div BATCH_SIZE) + 1,
          answered |-> response.ok,
          analysis |-> t.analysis,
          exempt |-> Lower(t.message.username) = streamer_username,
          embedded |-> embedding_ok,
          qdrant_up |-> qdrant_up,
          pg_up |-> pg_up,
          point_id |-> t.saved.point_id,
          postgres_attempted |-> t.saved.postgres_attempted,
          inconsistency |-> t.saved.inconsistency,
          alerted |-> t.alert # <<>>,
          alerted_before |-> id \in alert_ids,
          point_before |-> held(points),
          point_after |-> held(t.saved.points),
          row_before |-> id \in RowIds(pg),
          row_after |-> id \in RowIds(t.saved.pg) ]

\* process_messages_batch(messages) is entered: no alert yet.
ProcessMessagesBatch(messages) ==
    /\ bp_pc = "idle"
    /\ bp_pc' = "loop"
    /\ bp_messages' = messages
    /\ bp_i' = 1
    /\ batch_alerts' = <<>>
    /\ alerts' = <<>>
    /\ alert_ids' = {}
    /\ bp_log' = <<>>
    /\ UNCHANGED <<now, enrichVars, storeVars, qdrantVars, filterVars, saveVars, runVars>>
    /\ UNCHANGED <<alertVars, tailVars>>
    /\ UNCHANGED <<sessionVars, parseVars, dirVars>>

\* One turn of the loop of _process_single_batch; after the last message of
\* a chunk process_messages_batch extends alerts by the chunk's alerts.
ProcessSingleBatch(response, embedding_ok, qdrant_up, pg_up) ==
    /\ bp_pc = "loop"
    /\ bp_i <= Len(bp_messages)
    /\ \E t \in {_process_single_batch(bp_messages[bp_i], alert_ids, response,
                                        embedding_ok, qdrant_up, pg_up)} :
          /\ bp_messages' = [bp_messages EXCEPT ![bp_i] = t.message]
          /\ points' = t.saved.points
          /\ pg' = t.saved.pg
          /\ alert_ids' = alert_ids \cup {t.alert[k].message_id : k \in 1..Len(t.alert)}
          /\ IF bp_i % BATCH_SIZE = 0 \/ bp_i = Len(bp_messages)
             THEN /\ alerts' = alerts \o batch_alerts \o t.alert
                  /\ batch_alerts' = <<>>
             ELSE /\ batch_alerts' = batch_alerts \o t.alert
                  /\ UNCHANGED alerts
          /\ bp_log' = Append(bp_log, TurnRecord(bp_i, t, response, embedding_ok,
                                                  qdrant_up, pg_up))
    /\ bp_i' = bp_i + 1
    /\ UNCHANGED <<bp_pc, now, enrichVars, existing, qdrantVars, filterVars, saveVars, runVars>>
    /\ UNCHANGED <<alertVars, tailVars>>
    /\ UNCHANGED <<sessionVars, parseVars, dirVars>>

\* process_messages_batch returns alerts.
ReturnAlerts ==
    /\ bp_pc = "loop"
    /\ bp_i > Len(bp_messages)
    /\ bp_pc' = "returned"
    /\ UNCHANGED <<bp_messages, bp_i, batch_alerts, alerts, alert_ids, bp_log>>
    /\ UNCHANGED <<now, enrichVars, storeVars, qdrantVars, filterVars, saveVars, runVars>>
    /\ UNCHANGED <<alertVars, tailVars>>
    /\ UNCHANGED <<sessionVars, parseVars, dirVars>>

\* What the embedding service and the stores can do during one loop turn; the
\* stores are not asked without an embedding.
TurnOutcomes ==
    { [embedding_ok |-> TRUE, qdrant_up |-> o.qdrant_up, pg_up |-> o.pg_up] :
            o \in SaveOutcomes }
        \cup { [embedding_ok |-> FALSE, qdrant_up |-> TRUE, pg_up |-> TRUE] }

InitBatch ==
    /\ now = 0
    /\ InitMessages
    /\ existing = {}
    /\ InitStores

NextBatch ==
    \/ \E up \in BOOLEAN : NewModerador("a.log", up, up)
    \/ pc = "constructed" /\ \E messages \in CallLists : ProcessMessagesBatch(messages)
    \/ \E response \in Responses, o \in TurnOutcomes :
          ProcessSingleBatch(response, o.embedding_ok, o.qdrant_up, o.pg_up)
    \/ ReturnAlerts

\* --------------------------------------- _calculate_severity(analysis)
\* Scores from 0 to 1 in hundredths: the ends, and each threshold with the
\* values next to it.
Thresholds ==
    {CriticalToxicity, CriticalSpam, HighToxicity, HighSpam, MediumToxicity, MediumSpam}
Scores == {0, 100} \cup {t + d - 1 : t \in Thresholds, d \in 0..2}

\* self._calculate_severity(analysis) on an analysis with the two scores.
CalculateSeverity(toxicity, spam) ==
    \E analysis \in {Verdict(TRUE, toxicity, spam)} :
        /\ scored' = analysis
        /\ severity' = _calculate_severity(analysis)
        /\ priority' = IF analysis = scored THEN priority ELSE ""
        /\ UNCHANGED <<now, enrichVars, storeVars, qdrantVars, filterVars, saveVars, runVars>>
        /\ UNCHANGED <<batchVars, tailVars>>
        /\ UNCHANGED <<sessionVars, parseVars, dirVars>>

\* self._calculate_priority(analysis) of the real-time moderator on an
\* analysis with the two scores.
CalculatePriority(toxicity, spam) ==
    \E analysis \in {Verdict(TRUE, toxicity, spam)} :
        /\ scored' = analysis
        /\ priority' = _calculate_priority(analysis)
        /\ severity' = IF analysis = scored THEN severity ELSE ""
        /\ UNCHANGED <<now, enrichVars, storeVars, qdrantVars, filterVars, saveVars, runVars>>
        /\ UNCHANGED <<batchVars, tailVars>>
        /\ UNCHANGED <<sessionVars, parseVars, dirVars>>

InitSeverity ==
    /\ now = 0
    /\ InitMessages
    /\ existing = {}
    /\ InitStores

NextSeverity ==
    \/ \E toxicity \in Scores, spam \in Scores : CalculateSeverity(toxicity, spam)
    \/ \E toxicity \in Scores, spam \in Scores : CalculatePriority(toxicity, spam)

\* --------------------------------------- realtime_moderator.py processes
InitRealtime ==
    /\ now = 0
    /\ InitMessages
    /\ existing = {}
    /\ InitStores

NextRealtime ==
    \/ \E pg_up \in BOOLEAN : StartModerator(pg_up)
    \/ \E line \in TailLines : AppendLine(line)
    \/ DeleteFile
    \/ \E e \in Events : OnModified(e.is_directory, e.is_log, e.read_ok, e.pg_up)
    \/ \E response \in {NoResponse, Verdict(TRUE, 80, 0)}, o \in RealtimeOutcomes :
          ProcessRealtimeMessage(response, o.embedding_ok, o.qdrant_up, o.pg_up)

\* ------------ realtime_moderator.py --realtime: catch-up, then the observer
\* The chat client writes whole lines or a line in two writes, with "\n" or
\* "\r\n"; one process, which runs its catch-up before its first event.
InitTail ==
    /\ now = 0
    /\ InitMessages
    /\ existing = {}
    /\ InitStores

NextTail ==
    \/ rt_pc = "off" /\ StartModerator(TRUE)
    \/ UseCrlf
    \/ \E line \in TailLines : AppendLine(line)
    \/ \E line \in TailLines : WriteHead(line)
    \/ WriteRest
    \/ \E read_ok \in BOOLEAN : InitialCatchup(read_ok, TRUE)
    \/ rt_event # NoEvent /\ \E read_ok \in BOOLEAN : OnModified(FALSE, TRUE, read_ok, TRUE)
    \/ \E embedding_ok \in BOOLEAN :
          ProcessRealtimeMessage(NoResponse, embedding_ok, TRUE, TRUE)

\* ------------------- one program at a time: main.py or realtime_moderator.py
\* main.py --file <f> with the batch processor's loop message by message
\* (process_log_file hands new_messages to process_messages_batch), or
\* processes of realtime_moderator.py on the tailed file.
InitPaths ==
    /\ now = 0
    /\ InitMessages
    /\ existing = {}
    /\ InitStores

NextPaths ==
    \/ /\ rt_pc = "off"
       /\ disk = <<>>
       /\ \E f \in FileNames, up \in BOOLEAN : NewModerador(f, up, up)
    \/ \E o \in FilterOutcomes : ProcessLogFile(o.pg_up, o.qdrant_up, o.tier_raises)
    \/ pc = "batch" /\ ProcessMessagesBatch(new_messages)
    \/ \E response \in Responses, o \in TurnOutcomes :
          ProcessSingleBatch(response, o.embedding_ok, o.qdrant_up, o.pg_up)
    \/ ReturnAlerts
    \/ runs = 0 /\ NextRealtime

\* ------------------------------------------------- main.py --batch
InitDir ==
    /\ now = 0
    /\ InitMessages
    /\ existing = {}
    /\ InitStores

NextDir ==
    \/ Tick
    \/ \E f \in FileNames, k \in 1..MaxFileLines, pg_up \in BOOLEAN :
          ProcessTailedLine(f, k, NoResponse, pg_up)
    \/ \E files \in FileOrders : StartBatchRun(files)
    \/ NextLogFile
    \/ runs = 1 /\ \E o \in FilterOutcomes :
                      ProcessLogFile(o.pg_up, o.qdrant_up, o.tier_raises)
    \/ runs = 1 /\ \E embedding_ok \in BOOLEAN, o \in SaveOutcomes :
                      ProcessMessage(embedding_ok, o.qdrant_up, o.pg_up)
    \/ runs = 1 /\ \E qdrant_up \in BOOLEAN, pg_up \in BOOLEAN :
                      FinishLogFile(qdrant_up, pg_up)

\* ------------------------------------------------ calls of _parse_line
InitParse ==
    /\ now = 0
    /\ InitMessages
    /\ existing = {}
    /\ InitStores

NextParse ==
    \/ Tick
    \/ \E line \in ParserLines, debug_mode \in BOOLEAN : ParseLine(line, debug_mode)

\* ------------------------------ calls on one SessionTracker inside a run
InitSession ==
    /\ now = 0
    /\ InitMessages
    /\ existing = {}
    /\ InitStores

NextSession ==
    \/ \E key \in Counters \cup {"elapsed"}, value \in 0..MaxCount : UpdateStats(key, value)
    \/ \E stat_name \in Counters \cup {"elapsed"}, increment \in {-1, 1} :
          IncrementStat(stat_name, increment)

Init ==
    /\ now = 0
    /\ InitMessages
    /\ existing = {}
    /\ InitStores

Next ==
    \/ Tick
    \/ \E f \in FileNames, ensure_up \in BOOLEAN, set_up \in BOOLEAN :
          NewModerador(f, ensure_up, set_up)
    \/ \E o \in FilterOutcomes : ProcessLogFile(o.pg_up, o.qdrant_up, o.tier_raises)
    \/ \E embedding_ok \in BOOLEAN, o \in SaveOutcomes :
          ProcessMessage(embedding_ok, o.qdrant_up, o.pg_up)
    \/ \E qdrant_up \in BOOLEAN, pg_up \in BOOLEAN : FinishLogFile(qdrant_up, pg_up)

vars == <<now, enrichVars, storeVars, qdrantVars, filterVars, saveVars, runVars,
          batchVars, alertVars, tailVars, sessionVars, parseVars, dirVars>>

Spec == Init /\ [][Next]_vars

SpecEnrich == InitEnrich /\ [][NextEnrich]_vars

SpecDedup == InitDedup /\ [][NextDedup]_vars

SpecBatch == InitBatch /\ [][NextBatch]_vars

SpecSeverity == InitSeverity /\ [][NextSeverity]_vars

SpecRealtime == InitRealtime /\ [][NextRealtime]_vars

SpecPaths == InitPaths /\ [][NextPaths]_vars

SpecTail == InitTail /\ [][NextTail]_vars

SpecDir == InitDir /\ [][NextDir]_vars

SpecSession == InitSession /\ [][NextSession]_vars

SpecParse == InitParse /\ [][NextParse]_vars

\* ------------------------------------------------------------ the stores
CountWithId(B, id) ==
    BagCardinality([e \in {x \in BagToSet(B) : x.message_id = id} |-> B[e]])

\* C1: over every sequence of runs, each collection holds at most one point
\* per message_id and the table at most one row per message_id.
C1_NoIdStoredTwice ==
    /\ \A c \in CollectionNames : \A p \in BagToSet(points[c]) :
          CountWithId(points[c], p.message_id) = 1
    /\ \A r \in BagToSet(pg) : CountWithId(pg, r.message_id) = 1

\* a message whose id the collection already held was handed to the writer
\* and the collection still holds that id once
C1_Witness ==
    /\ last_save.existed
    /\ last_save.point_id = ""
    /\ CountWithId(points[last_save.collection], last_save.message_id) = 1
    /\ CountWithId(pg, last_save.message_id) = 1

\* C5: a run that re-reads a log file which an earlier run left completely
\* stored, with both stores answering, finds nothing new.
C5_RerunFindsNothingNew ==
    (rerun /\ filter_log.path = "tiers" /\ filter_log.pg_up /\ filter_log.qdrant_up)
        => new_messages = <<>>

\* C10: the row is attempted only when add_message returned a point id, and
\* every message_id the batch processor inserted into the table is in the
\* collection that was current at that time.
C10_RowOnlyAfterPoint ==
    /\ last_save.postgres_attempted => last_save.point_id # ""
    /\ \A w \in batch_written : w.message_id \in CollectionIds(w.collection)

\* rows were written, and a later message whose vector write failed got no row
C10_Witness ==
    /\ batch_written # {}
    /\ last_save.message_id # ""
    /\ ~last_save.existed
    /\ last_save.point_id = ""
    /\ ~last_save.postgres_attempted
    /\ last_save.message_id \notin RowIds(pg)

\* ------------------------------------------------- the deduplication engine
Called == filter_log.path # "none"

\* ids of the batch given to the last call, and the ids it returned
InputIds  == {generate_message_id(batch_in[i], now) : i \in 1..Len(batch_in)}
ResultIds == {new_messages[i].message_id : i \in 1..Len(new_messages)}

NoRepeatedId(messages) ==
    \A i, j \in 1..Len(messages) :
        i # j => messages[i].message_id # messages[j].message_id

\* positions of the batch that hold the first occurrence of their id
FirstPositions ==
    { i \in 1..Len(batch_in) :
        \A j \in 1..(i - 1) :
            generate_message_id(batch_in[j], now) # generate_message_id(batch_in[i], now) }

RECURSIVE IdsAt(_, _)
IdsAt(i, keep) ==
    IF i > Len(batch_in) THEN <<>>
    ELSE (IF i \in keep THEN <<generate_message_id(batch_in[i], now)>> ELSE <<>>)
            \o IdsAt(i + 1, keep)

ResultIdSeq == [i \in 1..Len(new_messages) |-> new_messages[i].message_id]

NothingPersisted ==
    /\ pg = EmptyBag
    /\ \A c \in CollectionNames : points[c] = EmptyBag

\* C6: whatever the stores hold and whatever the freshness flag says, the list
\* filter_new_messages returns holds each message_id at most once, the first
\* occurrence in input order; when nothing is persisted its length is the
\* number of distinct ids of the batch.
C6_IntraBatchAlways ==
    Called =>
        /\ NoRepeatedId(new_messages)
        /\ NothingPersisted => Len(new_messages) = Cardinality(InputIds)

\* C7: on the two-store path a message survives exactly when neither store
\* reported its id; an id reported by one store only is filtered out all the
\* same, the inconsistency lines are printed, and the call still returns the
\* tier-2 result.
C7_UnionSemantics ==
    filter_log.path = "tiers" =>
        /\ ResultIdSeq = IdsAt(1, { i \in FirstPositions :
                generate_message_id(batch_in[i], now) \notin
                    (filter_log.existing_ids_postgres \cup filter_log.existing_ids_qdrant) })
        /\ (filter_log.existing_ids_postgres # filter_log.existing_ids_qdrant)
              => filter_log.inconsistencies

C7_Witness ==
    /\ filter_log.path = "tiers"
    /\ \E id \in InputIds :
          /\ id \in filter_log.existing_ids_qdrant
          /\ id \notin filter_log.existing_ids_postgres
          /\ id \notin ResultIds
    /\ filter_log.inconsistencies
    /\ new_messages # <<>>

C9_BypassOnlyWhenEmpty ==
    filter_log.path = "bypass" => filter_log.points_in_collection = 0

\* The username as the id computation sees it.
IdUsername(u) == NormalizedUsername(u)

Enriched(m) == m.message_id # ""

\* C2: two enriched messages that agree on normalized username, timestamp
\* string form and text have the same message_id, and two enriched messages
\* whose normalized username or timestamp string form differ have different
\* message_ids.
C2_IdFunctionOfKey ==
    (Enriched(message) /\ Enriched(previous)) =>
        /\ ( /\ IdUsername(message.username) = IdUsername(previous.username)
             /\ message.timestamp_str = previous.timestamp_str
             /\ message.text = previous.text )
           => message.message_id = previous.message_id
        /\ ( \/ IdUsername(message.username) # IdUsername(previous.username)
             \/ message.timestamp_str # previous.timestamp_str )
           => message.message_id # previous.message_id

C2_Witness ==
    /\ Enriched(message) /\ Enriched(previous)
    /\ message.username # previous.username
    /\ IdUsername(message.username) = IdUsername(previous.username)
    /\ message.timestamp_str = previous.timestamp_str
    /\ message.text = previous.text
    /\ message.message_id = previous.message_id

\* C3: enriching an already enriched message changes no field; the
\* message_id of the first call survives every later call.
C3_EnrichIdempotent ==
    enrich_calls >= 2 => message = first_enriched

C3_Witness ==
    /\ enrich_calls >= 2
    /\ raw_username = <<>>
    /\ message.timestamp.v < now
    /\ message.timestamp_str = isoformat(message.timestamp.v)

\* C4: a username that is missing, blank or one of unknown / none / null in
\* any letter case enters the id as bot_or_unknown, so two such messages with
\* the same timestamp and text share one id; the displayed username of a
\* message that had none is "unknown", not the sentinel.
SentinelClass(u) == Lower(Strip(u)) \in {<<>>, UNKNOWN, NONE, NULL}

C4_SentinelUsernames ==
    /\ (Enriched(message) /\ SentinelClass(message.username)) =>
          message.message_id = "bot_or_unknown_" \o message.timestamp_str
                                   \o "_" \o text_hash(message.text)
    /\ ( /\ Enriched(message) /\ Enriched(previous)
         /\ SentinelClass(message.username) /\ SentinelClass(previous.username)
         /\ message.timestamp = previous.timestamp
         /\ message.text = previous.text )
       => message.message_id = previous.message_id
    /\ (Enriched(message) /\ raw_username = <<>>) => message.username = UNKNOWN

C4_Witness ==
    /\ Enriched(message) /\ Enriched(previous)
    /\ raw_username = <<>>
    /\ message.username = UNKNOWN
    /\ previous.username = <<" ", "N", "U", "L", "L", " ">>
    /\ message.timestamp = previous.timestamp
    /\ message.text = previous.text
    /\ message.message_id = previous.message_id

\* ------------------------------------------------------ the batch processor
PointWritten(e) == ~e.point_before /\ e.point_after
RowInserted(e)  == ~e.row_before /\ e.row_after

\* C11: whenever a loop turn wrote the point and did not insert the row, the
\* inconsistency line is printed, the table was asked once and is as it was
\* (no retry put the row in), the point is still in the collection (no
\* rollback), and the loop stands at the next message.
C11_InconsistencyReportedNoRetryNoRollback ==
    /\ \A j \in 1..Len(bp_log) :
          (PointWritten(bp_log[j]) /\ ~RowInserted(bp_log[j]))
              => /\ bp_log[j].inconsistency
                 /\ bp_log[j].postgres_attempted
                 /\ bp_log[j].row_after = bp_log[j].row_before
                 /\ bp_log[j].point_after
    /\ \A j \in 1..Len(bp_log) :
          bp_log[j].inconsistency => PointWritten(bp_log[j]) /\ ~RowInserted(bp_log[j])
    /\ bp_pc # "idle" => bp_i = Len(bp_log) + 1

\* a turn met the failing table after its point was written, and the next
\* message of the batch went into both stores
C11_Witness ==
    \E j \in 1..Len(bp_log) :
        /\ j < Len(bp_log)
        /\ PointWritten(bp_log[j])
        /\ ~bp_log[j].pg_up
        /\ bp_log[j].inconsistency
        /\ bp_log[j].message_id \in CollectionIds(collection_name)
        /\ bp_log[j].message_id \notin RowIds(pg)
        /\ PointWritten(bp_log[j + 1])
        /\ RowInserted(bp_log[j + 1])

\* What the stores hold of a message after a loop turn follows from the
\* embedding, the store outcomes and what they held before.
TurnPersistsByRule(e) ==
    /\ PointWritten(e) <=> /\ e.embedded
                           /\ e.qdrant_up
                           /\ collection_name \in existing
                           /\ ~e.point_before
    /\ RowInserted(e) <=> PointWritten(e) /\ e.pg_up /\ ~e.row_before
    /\ e.point_before => e.point_after
    /\ e.row_before => e.row_after

C14_AlertIffThreeConditions ==
    /\ \A j \in 1..Len(bp_log) :
          bp_log[j].alerted <=> /\ bp_log[j].analysis.requires_action
                                /\ ~bp_log[j].alerted_before
                                /\ ~bp_log[j].exempt
    /\ bp_pc = "returned"
          => Len(alerts) = Cardinality({j \in 1..Len(bp_log) : bp_log[j].alerted})

\* ------------------------------------------------------------- severity
\* C15: the severity is CRITICAL from toxicity 0.8 or spam 0.9 on, else HIGH
\* from 0.6 or 0.7 on, else MEDIUM from 0.4 or 0.5 on, else LOW.
C15_SeverityThresholds ==
    severity # "" =>
        LET t == scored.toxicity_score
            s == scored.spam_probability
            critical == t >= 80 \/ s >= 90
            high == t >= 60 \/ s >= 70
            medium == t >= 40 \/ s >= 50
        IN  /\ severity \in {"CRITICAL", "HIGH", "MEDIUM", "LOW"}
            /\ severity = "CRITICAL" <=> critical
            /\ severity = "HIGH" <=> ~critical /\ high
            /\ severity = "MEDIUM" <=> ~critical /\ ~high /\ medium
            /\ severity = "LOW" <=> ~critical /\ ~high /\ ~medium

\* the spam score stands exactly on the HIGH threshold, the toxicity just
\* under the MEDIUM one
C15_Witness ==
    /\ scored.spam_probability = 70
    /\ scored.toxicity_score = 39
    /\ severity = "HIGH"

\* ---------------------------------------------------------- the tailer
Tracked == rt_event.outcome = "read" /\ rt_event.tracked

\* The numbers of the lines first .. first + count - 1 that the parser
\* makes a message of.
ParsedAmong(first, count) ==
    SelectSeq([i \in 1..count |-> first + i - 1],
              LAMBDA n : _parse_line(disk[n], FALSE, now) # <<>>)

C17_MissingFileAndReadError ==
    /\ rt_event.outcome = "missing"
          => /\ ~rt_event.error_printed
             /\ file_positions = rt_event.positions_before
             /\ rt_event.count = 0
             /\ rt_queue = <<>>
             /\ rt_turn = NoTurn
             /\ pg = rt_event.pg_before
    /\ rt_event.outcome = "error"
          => /\ rt_event.error_printed
             /\ file_positions = rt_event.positions_before
             /\ seen_lines = rt_event.seen_before
             /\ rt_event.count = 0
             /\ rt_queue = <<>>
             /\ rt_turn = NoTurn
             /\ pg = rt_event.pg_before

\* the read of a tracked file failed while a line appended after the last
\* read was waiting; the cursor still stands before that line
C17_Witness ==
    /\ rt_event.outcome = "error"
    /\ rt_event.tracked
    /\ on_disk
    /\ Len(disk) = seen_lines + 1
    /\ file_positions[TailedFile] = FileSize(SubSeq(disk, 1, seen_lines))
    /\ file_positions[TailedFile] > 0

\* C20: a message that the real-time loop classifies is not one whose
\* message_id the table held when it was asked (and answered), nor one whose
\* message_id is in the id cache.
C20_StoredIdsAreFilteredBeforeClassification ==
    rt_turn.lineno # 0 =>
        /\ ~(rt_event.lookup_up /\ rt_turn.message_id \in RowIds(rt_event.pg_before))
        /\ ~rt_turn.id_in_cache

\* ------------------------------------------------------- the two paths
\* C12: a turn without an embedding asks neither store and leaves both as
\* they were, in the batch processor and in the real-time loop, and the loop
\* stands at the next message.
C12_NoEmbeddingNoWrite ==
    /\ \A j \in 1..Len(bp_log) :
          ~bp_log[j].embedded
              => /\ bp_log[j].point_id = ""
                 /\ ~bp_log[j].postgres_attempted
                 /\ bp_log[j].point_after = bp_log[j].point_before
                 /\ bp_log[j].row_after = bp_log[j].row_before
    /\ bp_pc # "idle" => bp_i = Len(bp_log) + 1
    /\ (rt_turn.lineno # 0 /\ ~rt_turn.embedded)
          => /\ rt_turn.point_id = ""
             /\ ~rt_turn.postgres_attempted
             /\ rt_turn.points_same
             /\ rt_turn.row_after = rt_turn.row_before
    /\ rt_pc = "loop" <=> rt_queue # <<>>

\* in the real-time loop a message got no embedding and no row, and the
\* message after it got its row
C12_Witness ==
    /\ rt_turn.lineno # 0
    /\ rt_turn.unembedded_before
    /\ rt_turn.embedded
    /\ ~rt_turn.row_before
    /\ rt_turn.row_after
    /\ Cardinality(RowIds(pg)) = 1

RECURSIVE IsSubsequence(_, _)
IsSubsequence(a, b) ==
    IF a = <<>> THEN TRUE
    ELSE IF b = <<>> THEN FALSE
    ELSE IF Head(a) = Head(b) THEN IsSubsequence(Tail(a), Tail(b))
    ELSE IsSubsequence(a, Tail(b))

IdSeq(messages) == [i \in 1..Len(messages) |-> messages[i].message_id]

C19_RowOnlyAfterPointInBothPaths ==
    /\ \A j \in 1..Len(bp_log) :
          bp_log[j].postgres_attempted => bp_log[j].point_id # ""
    /\ rt_turn.postgres_attempted => rt_turn.point_id # ""
\* --------------------------------------------------------- the session
\* C21: no call of update_stats or increment_stat, whatever its
\* arguments, makes one of the four counters smaller.
C21_CountersNeverDecrease ==
    [][\A k \in Counters : _session_stats'[k] >= _session_stats[k]]_vars
\* C22: when process_messages_batch has returned in a run of
\* process_log_file, the session holds the number of messages handed to
\* the batch processor, the number of alerts returned and the number of
\* parsed messages that were not new.
C22_SnapshotReflectsRun ==
    (pc = "batch" /\ bp_pc = "returned")
        => /\ _session_stats["processed_count"] = Len(bp_messages)
           /\ _session_stats["alert_count"] = Len(alerts)
           /\ _session_stats["duplicate_count"] = Len(batch_in) - Len(new_messages)
\* ----------------------------------------------------------- the parser
\* C23: _parse_line returns a message or None for every line; for a line
\* that no pattern accepts it returns the fallback message (username
\* bot_or_unknown, the current time, timestamp_str unknown) exactly when
\* debug mode is off and the line holds a colon, and None otherwise.
C23_FallbackOnlyWithoutDebugWithColon ==
    parse_call.called =>
        /\ Len(parse_call.result) <= 1
        /\ parse_call.line.fmt \notin {"full", "hour"}
              => /\ parse_call.result # <<>>
                       <=> (~parse_call.debug_mode /\ parse_call.line.colon)
                 /\ parse_call.result # <<>>
                       => /\ parse_call.result[1].username = BOT_OR_UNKNOWN
                          /\ parse_call.result[1].timestamp = Datetime(parse_call.clock)
                          /\ parse_call.result[1].timestamp_str = "unknown"

\* a line whose timestamp does not parse got the fallback message, after
\* the clock moved
C23_Witness ==
    /\ parse_call.called
    /\ parse_call.line.fmt = "baddate"
    /\ ~parse_call.debug_mode
    /\ parse_call.clock > 0
    /\ parse_call.result # <<>>
    /\ parse_call.result[1].username = BOT_OR_UNKNOWN
\* ------------------------------------------------ priority and severity
\* C27: for the same pair of scores the priority of the real-time
\* moderator is the severity of the batch processor.
C27_PriorityIsSeverity ==
    (severity # "" /\ priority # "") => priority = severity
\* ------------------------------------------------------- the file source
\* C25: in a run over a log file the messages that filter_new_messages
\* returns, the points and the rows all carry the name of the file the
\* parser read them from.
C25_FileSourceKept ==
    /\ \A i \in 1..Len(new_messages) : new_messages[i].file_source = filepath
    /\ \A r \in BagToSet(pg) : r.file_source \in FileNames
    /\ \A c \in CollectionNames :
          \A q \in BagToSet(points[c]) : q.file_source \in FileNames
\* ------------------------------------------------------ main.py --batch
\* C24: no exception ends a run over the log files while files are left.
C24_NoErrorStopsTheRun ==
    ~(crashed /\ log_files # <<>>)
Cursor(positions) ==
    IF TailedFile \in DOMAIN positions THEN positions[TailedFile] ELSE 0

\* C28: while the tailed file is only appended to, in every step of a
\* process (appends in one or two writes, events, failed reads, events with
\* nothing new) the stored cursor does not decrease and is not beyond the
\* end of the file, and a read that succeeds leaves it at the end of the
\* file that read saw.
C28_CursorFollowsEndOfFile ==
    [][ /\ rt_event' # NoEvent => Cursor(file_positions') >= Cursor(file_positions)
        /\ Cursor(file_positions') <= FileSize(disk')
        /\ (rt_event' # rt_event /\ rt_event'.outcome = "read")
               => Cursor(file_positions') = rt_event'.size ]_vars

\* A read of a file whose cursor was inside it moved the cursor forward to
\* the end of the file, where the first write of a line ends.
C28_Witness ==
    /\ rt_event.outcome = "read"
    /\ rt_event.tracked
    /\ Cursor(rt_event.positions_before) > 0
    /\ Cursor(file_positions) > Cursor(rt_event.positions_before)
    /\ Cursor(file_positions) = FileSize(disk)
    /\ rt_event.error_printed = FALSE
    /\ partial

\* C29: every message process_new_lines hands to the loop is one whole line
\* of the file: its text is the text of the line it was read from, also
\* when the line is written in two writes and an event is handled between
\* them.  (Refuted: readlines() returns what is there of the last line, and
\* the fragment is parsed like a line.)
C29_MessagesAreWholeLines ==
    rt_event.outcome = "read" =>
        \A j \in 1..Len(rt_event.handed) :
            rt_event.handed_texts[j] = Strip(disk[rt_event.handed[j]].text)

\* C26: after the catch-up has read the tailed file its cursor is the size
\* of the file at that read, and a file that an event meets first is read
\* from offset 0.  (Refuted: the cursor is the length of the decoded text,
\* which is shorter than the file when its lines end with "\r\n".)
C26_CatchupCursorAtEndOfFile ==
    /\ rt_event.outcome = "catchup" => Cursor(file_positions) = rt_event.size
    /\ (rt_event.outcome = "read" /\ ~rt_event.tracked)
          => rt_event.first = 1 /\ rt_event.count = rt_event.file_lines

====
